---- MODULE Spec2Model ----
(***************************************************************************)
(* Model of the lottery back end's ledger: the wallet mutations of         *)
(* UserService (deductFromWallet, addToWallet) run by DatabaseErrorHandler *)
(* (executeWithRetry / executeTransaction), the ticket purchase handlers   *)
(* (REST POST /purchase and the socket handler handlePurchaseTickets), the *)
(* prize claim (PrizeService.claimPrize) and the rate limiter              *)
(* (RateLimitValidator).                                                   *)
(*                                                                         *)
(* Every request handler is a sequence of steps separated by its awaits:   *)
(* one SQL statement is one step, and the synchronous code between two     *)
(* awaits belongs to the step of the statement before it.  Handlers of     *)
(* different requests interleave at those steps.                           *)
(*                                                                         *)
(* Money is counted in whole baht: every amount the model uses is a whole   *)
(* number, which the DECIMAL(10,2) wallet column holds exactly.            *)
(*                                                                         *)
(* A storage fault is a statement that fails without having had an effect. *)
(***************************************************************************)
EXTENDS Integers, Sequences, FiniteSets, TLC

\* ------------------------------------------------------------- bounds
MaxRequests == 2      \* requests issued in one behaviour
MaxFaults == 1        \* storage faults injected in one behaviour
MaxTicks == 1         \* clock advances in one behaviour
MaxShuffles == 2                 \* orders a shuffle of the pool can produce
MaxTxFaults == 3                 \* storage faults injected while the retry executor is examined
MaxConnFaults == 9               \* faults injected while connections are made
MaxRateTicks == 2                \* clock advances while the rate limiter is examined
desiredCount == 3                \* tickets one creation makes (120 in the program)
batchSize == 2                   \* rows of one INSERT statement (50 in the program)
MaxClaims == 3                   \* a claim may begin while fewer requests have begun

\* ------------------------------------------------- program constants
maxRetries == 3                 \* DatabaseErrorHandler.maxRetries
WalletLimit == 1000000          \* validateWalletAmount's ceiling
RateMaxRequests == 10           \* validateRequestRate(.., 10, 60000)
RateWindowMs == 60000
TickMs == RateWindowMs          \* the clock advances by one window
mockWinAmount == 1000            \* controllers/prizes.js: the amount of a mock win
baseDelay == 1000               \* DatabaseErrorHandler.baseDelay (ms)
maxDelay == 10000               \* DatabaseErrorHandler.maxDelay (ms)
maxAge == 86400000              \* RateLimitValidator.cleanup: 24 hours in ms
minPool == 5                    \* the tickets a draw needs in its pool

\* ------------------------------------------------------------ domains
Procs == {1, 2}                 \* request handlers that can be in flight together
NoProc == 0
Users == {1, 2}                 \* rows of User: 1 is the owner (admin), 2 a member
GhostUser == 3                  \* a user id with no row
UserIds == Users \cup {GhostUser}
Tickets == 1..6                 \* rows of Ticket
Counter == {1, 2}               \* the tickets that purchase and claim requests name
Null == 0                       \* SQL NULL in an id column
\* Values Math.floor(Math.random() * 1000000) takes while tickets are created.
NumberPool == {7, 4242, 80808, 123456, 999999}

\* Ticket.price and Ticket.number of the rows (numbers are unique, six digits).
price == [t \in Tickets |-> 80]
number == [t \in Tickets |->
             CASE t = 1 -> 123456 [] t = 2 -> 654321 [] t = 3 -> 111456
               [] t = 4 -> 222256 [] t = 5 -> 333321 [] t = 6 -> 444444]

\* User.role of the rows.
role == [u \in Users |-> IF u = 1 THEN "owner" ELSE "member"]

\* The operations SystemValidator.validateConcurrentOperations guards.
GuardedOps == {"ticket_creation", "system_reset"}

RateOps == {"wallet_deduct", "wallet_add"}
RateKeys == UserIds \X RateOps

retryableCodes ==
  {"ECONNRESET", "ECONNREFUSED", "ETIMEDOUT", "ENOTFOUND", "ER_LOCK_WAIT_TIMEOUT",
   "ER_LOCK_DEADLOCK", "ER_CON_COUNT_ERROR", "ER_TOO_MANY_USER_CONNECTIONS"}

\* The storage faults the model injects: one the retry executor retries, one it does not.
FaultCodes == {"ER_LOCK_WAIT_TIMEOUT", "ER_DATA_OUT_OF_RANGE"}

VARIABLES
  wallet,          \* [Users -> Int]: the committed User.wallet column
  userLock,        \* [Users -> Procs \cup {NoProc}]: holder of the row's exclusive lock
  ticket,          \* [Tickets -> record]: status, created_by, purchase_id, prize_id
  purchases,       \* Seq(record): the Purchase table, purchase_id = position
  prize,           \* [prize_id -> record]: the Prize table
  uniqueRank,      \* whether the Prize table was created with UNIQUE KEY (rank)
  lastDrawResult,  \* global.lastDrawResult: the winners of the last socket draw
  accounts,        \* the user ids that have a row in User
  inventory,       \* the ticket ids that have a row in Ticket
  created,         \* Seq(record): the rows of Ticket that ticket creation inserted
  concurrentOps,   \* [GuardedOps -> Nat]: SystemValidator.concurrentOps
  session,         \* [Users -> record]: the UserSession of the user's socket
  requestCounts,   \* [RateKeys -> Seq(Nat)]: RateLimitValidator.requestCounts
  now,             \* Date.now()
  pc,              \* [Procs -> STRING]: where each handler stands
  req,             \* [Procs -> record]: the request a handler serves
  loc,             \* [Procs -> record]: the handler's local variables
  res,             \* [Procs -> record]: what the handler answered
  obs,             \* [Procs -> record]: what the request has been seen to do (history)
  wallet0,         \* the balances at the start of the behaviour
  sumAdds,         \* [Users -> Int]: amounts of the addToWallet calls that succeeded
  sumDeducts,      \* [Users -> Int]: amounts of the deductFromWallet calls that succeeded
  nreq, nfaults, nticks

vars == <<wallet, userLock, ticket, purchases, prize, uniqueRank, lastDrawResult,
          accounts, inventory, created, concurrentOps, session, requestCounts, now,
          pc, req, loc, res, obs, wallet0, sumAdds, sumDeducts, nreq, nfaults, nticks>>

\* What only the administrator's operations (draw, reset) change.
stock == <<created, concurrentOps>>
admin == <<prize, uniqueRank, lastDrawResult, accounts, inventory, stock>>
catalog == <<ticket, purchases, admin>>
limiter == <<requestCounts, now>>
ledger == <<wallet0, sumAdds, sumDeducts>>

NoReq == [op |-> "none", user |-> 0, amount |-> 0, ticketIds |-> {}, ticketNumber |-> 0,
          poolType |-> "none", rewards |-> <<>>]
NoLoc == [attempt |-> 0, inner |-> 0, cur |-> 0, new |-> 0, err |-> "none", pending |-> FALSE,
          tickets |-> {}, totalCost |-> 0, purchaseId |-> 0, ticketId |-> 0,
          prizeAmount |-> 0, winners |-> <<>>, tails |-> <<>>, tail3Winners |-> {}, tail2Winners |-> {},
          queue |-> <<>>, adminUserId |-> 0, numbers |-> <<>>, inserted |-> 0]
\* An error object: name, code, message (the text, as the list of its parts) and what
\* enhanceError adds to it.
NoError == [name |-> "none", code |-> "none", message |-> <<>>, operation |-> "none",
            attempts |-> 0, originalError |-> <<>>]
NoRes == [status |-> "none", code |-> "none", error |-> "none", attempts |-> 0,
          raised |-> NoError]
\* What executeWithRetry and the operation it wraps have been seen to do (history).
NoTx == [calls |-> 0, creates |-> 0, waits |-> <<>>, errs |-> <<>>, opened |-> 0, closed |-> 0,
         works |-> 0, commits |-> 0, rollbacks |-> 0, failedRollbacks |-> {}]
NoObs == [bal0 |-> 0, stored |-> 0, tested |-> FALSE, delta |-> 0, eff |-> {},
          seen |-> "none", pool |-> {}, bound |-> <<>>, users0 |-> {}, rate0 |-> 0,
          prize0 |-> <<>>, links0 |-> <<>>, tx |-> NoTx]

\* ------------------------------------------------------- pure helpers
RECURSIVE SumOver(_, _)
SumOver(f, S) ==
  IF S = {} THEN 0 ELSE LET x == CHOOSE y \in S : TRUE IN f[x] + SumOver(f, S \ {x})

\* DatabaseErrorHandler.isRetryableError
isRetryableError(code) == code \in retryableCodes

\* WalletValidator.validateWalletAmount: the code it throws, or "OK"
validateWalletAmount(amount) ==
  IF amount \notin Int THEN "INVALID_AMOUNT_FORMAT"
  ELSE IF amount < 0 THEN "NEGATIVE_AMOUNT"
  ELSE IF amount > WalletLimit THEN "AMOUNT_EXCEEDS_LIMIT"
  ELSE "OK"

\* Variant for sensitivity analysis: the comparison with the balance left out.
validateSufficientFundsLax(currentWallet, requiredAmount) ==
  IF currentWallet < 0 THEN "INVALID_WALLET_AMOUNT"
  ELSE IF requiredAmount <= 0 THEN "INVALID_REQUIRED_AMOUNT"
  ELSE "OK"

\* WalletValidator.validateSufficientFunds: the code it throws, or "OK"
validateSufficientFunds(currentWallet, requiredAmount) ==
  IF currentWallet < 0 THEN "INVALID_WALLET_AMOUNT"
  ELSE IF requiredAmount <= 0 THEN "INVALID_REQUIRED_AMOUNT"
  ELSE IF currentWallet < requiredAmount THEN "INSUFFICIENT_FUNDS"
  ELSE "OK"

\* Variant for sensitivity analysis: the call is let through with maxRequests calls
\* already inside the window.
validateRequestRateLax(requests, maxRequests, windowMs) ==
  LET windowStart == now - windowMs
      validRequests == SelectSeq(requests, LAMBDA time : time > windowStart)
  IN IF Len(validRequests) > maxRequests
       THEN [allowed |-> FALSE, requests |-> validRequests]
       ELSE [allowed |-> TRUE, requests |-> Append(validRequests, now)]

\* RateLimitValidator.validateRequestRate on one key's list: the list it stores and
\* whether the call is let through.
validateRequestRate(requests, maxRequests, windowMs) ==
  LET windowStart == now - windowMs
      validRequests == SelectSeq(requests, LAMBDA time : time > windowStart)
  IN IF Len(validRequests) >= maxRequests
       THEN [allowed |-> FALSE, requests |-> validRequests]
       ELSE [allowed |-> TRUE, requests |-> Append(validRequests, now)]

\* helpers.validatePurchaseInput, and the same test at the head of POST /purchase
validatePurchaseInput(ticketIds) == ticketIds # {}

\* ------------------------------------------------------ request frame
Answer(p, status, code, error, attempts) ==
  /\ pc' = [pc EXCEPT ![p] = "done"]
  /\ res' = [res EXCEPT ![p] = [status |-> status, code |-> code, error |-> error,
                                attempts |-> attempts, raised |-> NoError]]

\* The handler's call ends with the error object e thrown to its caller.
AnswerRaised(p, e) ==
  /\ pc' = [pc EXCEPT ![p] = "done"]
  /\ res' = [res EXCEPT ![p] = [status |-> "error", code |-> e.code, error |-> "none",
                                attempts |-> e.attempts, raised |-> e]]

Balance(u) == IF u \in accounts THEN wallet[u] ELSE 0

\* The limiter's key of a wallet mutation.
RateOp(op) == IF op = "deduct" THEN "wallet_deduct" ELSE "wallet_add"

\* The calls the limiter holds for that key that lie inside the window ending now.
inWindow(key) ==
  Len(SelectSeq(requestCounts[key], LAMBDA time : time > now - RateWindowMs))

\* A handler takes a request once it has answered the one before.
BeginWithin(p, r, budget) ==
  /\ pc[p] \in {"idle", "done"}
  /\ nreq < budget
  /\ nreq' = nreq + 1
  /\ req' = [req EXCEPT ![p] = r]
  /\ loc' = [loc EXCEPT ![p] = NoLoc]
  /\ obs' = [obs EXCEPT ![p] =
       [NoObs EXCEPT !.bal0 = Balance(r.user),
                     !.users0 = accounts,
                     !.rate0 = IF r.op \in {"deduct", "add"}
                                 THEN inWindow(<<r.user, RateOp(r.op)>>) ELSE 0,
                     !.prize0 = IF r.op \in {"draw", "socket_draw"} THEN prize
                                ELSE <<>>,
                     !.links0 = IF r.op \in {"draw", "socket_draw"}
                                  THEN [t \in Tickets |-> ticket[t].prize_id]
                                  ELSE <<>>]]

Begin(p, r) == BeginWithin(p, r, MaxRequests)

\* The handler goes on to its first statement.
Proceed(p, label) ==
  /\ pc' = [pc EXCEPT ![p] = label]
  /\ res' = [res EXCEPT ![p] = NoRes]

\* Time passes: the clock advances by ms, at most budget times.
TickBy(ms, budget) ==
  /\ nticks < budget
  /\ nticks' = nticks + 1
  /\ now' = now + ms
  /\ UNCHANGED <<wallet, userLock, catalog, session, requestCounts, pc, req, loc, res,
                 obs, ledger, nreq, nfaults>>

Tick == TickBy(TickMs, MaxTicks)

\* RateLimitValidator.cleanup: drops the timestamps older than maxAge and deletes
\* the keys left without any.  No timer and no handler of the program calls it.
RateCleanup ==
  /\ requestCounts' = [key \in RateKeys |->
       SelectSeq(requestCounts[key], LAMBDA time : (now - time) < maxAge)]
  /\ requestCounts' # requestCounts
  /\ UNCHANGED <<wallet, userLock, catalog, session, now, pc, req, loc, res, obs,
                 ledger, nreq, nfaults, nticks>>

\* The row of User is written outside any transaction (autocommit): the statement
\* waits while a transaction holds the row's lock.
WriteWallet(p, u, newWallet) ==
  /\ userLock[u] = NoProc
  /\ wallet' = [wallet EXCEPT ![u] = newWallet]
  /\ obs' = [obs EXCEPT ![p].delta = @ + (newWallet - wallet[u]),
                        ![p].eff = @ \cup {"User"}]

\* --------------------------------------- UserService wallet mutations
\* The synchronous head of deductFromWallet / addToWallet: amount validation, then
\* the rate limiter, then executeWithRetry(executeTransaction(..)) is entered.
\* Variant for sensitivity analysis: the transaction is entered whatever the limiter
\* said.
rateVerdictIgnored(p, allowed) == Proceed(p, "w_connect")

\* The limiter's verdict: the throw leaves the method before executeTransaction.
rateVerdict(p, allowed) ==
  IF allowed
    THEN Proceed(p, "w_connect")
    ELSE Answer(p, "error", "RATE_LIMIT_EXCEEDED", "none", 0)

WalletCall(p, op, userId, amount) ==
  /\ Begin(p, [NoReq EXCEPT !.op = op, !.user = userId, !.amount = amount])
  /\ LET v == validateWalletAmount(amount)
         key == <<userId, RateOp(op)>>
         r == validateRequestRate(requestCounts[key], RateMaxRequests, RateWindowMs)
     IN IF v # "OK"
          THEN /\ Answer(p, "error", v, "none", 0)
               /\ UNCHANGED requestCounts
          ELSE /\ requestCounts' = [requestCounts EXCEPT ![key] = r.requests]
               /\ rateVerdict(p, r.allowed)
  /\ UNCHANGED <<wallet, userLock, catalog, session, now, ledger, nfaults, nticks>>

deductFromWallet(p, userId, amount) == WalletCall(p, "deduct", userId, amount)

addToWallet(p, userId, amount) == WalletCall(p, "add", userId, amount)

\* The codes of the errors that are BusinessLogicError objects.
BusinessCodes ==
  {"INSUFFICIENT_FUNDS", "USER_NOT_FOUND", "INVALID_WALLET_AMOUNT",
   "INVALID_REQUIRED_AMOUNT", "INVALID_AMOUNT_FORMAT", "NEGATIVE_AMOUNT",
   "AMOUNT_EXCEEDS_LIMIT", "RATE_LIMIT_EXCEEDED"}

\* The error object thrown with that code: a BusinessLogicError of a validator, or
\* the Error of the driver.
errorOf(code) ==
  [NoError EXCEPT !.name = IF code \in BusinessCodes THEN "BusinessLogicError"
                           ELSE "Error",
                  !.code = code, !.message = <<code>>]

\* Variant for sensitivity analysis: the attempt count taken from the loop index.
enhanceErrorZeroBased(error, operation, attempts) ==
  [name |-> "Error", code |-> error.code,
   message |-> <<operation, attempts - 1>> \o error.message,
   operation |-> operation, attempts |-> attempts - 1,
   originalError |-> <<error.name, error.code, error.message>>]

\* DatabaseErrorHandler.enhanceError: a new Error whose message wraps the original's.
enhanceError(error, operation, attempts) ==
  [name |-> "Error", code |-> error.code,
   message |-> <<operation, attempts>> \o error.message,
   operation |-> operation, attempts |-> attempts,
   originalError |-> <<error.name, error.code, error.message>>]

\* DatabaseErrorHandler.calculateDelay
calculateDelay(attempt) ==
  LET delay == baseDelay * (2 ^ attempt) IN IF delay < maxDelay THEN delay ELSE maxDelay

\* The operationName the call hands to the executor.
operationName(op) ==
  CASE op = "deduct" -> "deductFromWallet" [] op = "add" -> "addToWallet"
    [] op = "initializeDatabase" -> "initializeDatabase" [] OTHER -> "findById"

\* Variant for sensitivity analysis: every error is retried until the last attempt.
GiveUpLastOnly(attempt, code) == attempt = maxRetries - 1

\* Variant for sensitivity analysis: one attempt more before giving up.
GiveUpLate(attempt, code) == attempt = maxRetries \/ ~isRetryableError(code)

\* executeWithRetry's decision on a caught error: give up (rethrow it enhanced) on
\* the last attempt or on a non-retryable error.
GiveUp(attempt, code) == attempt = maxRetries - 1 \/ ~isRetryableError(code)

\* executeWithRetry's catch of the error with that code: throw it enhanced, or sleep
\* and enter the loop again at restart.  o is the history of the call so far.
Decide(p, code, o, restart) ==
  LET o1 == [o EXCEPT !.tx.errs = Append(@, code)] IN
  IF GiveUp(loc[p].attempt, code)
    THEN /\ AnswerRaised(p, enhanceError(errorOf(code), operationName(req[p].op),
                                         loc[p].attempt + 1))
         /\ loc' = [loc EXCEPT ![p].pending = FALSE, ![p].err = code]
         /\ obs' = [obs EXCEPT ![p] = o1]
    ELSE /\ pc' = [pc EXCEPT ![p] = restart]
         /\ loc' = [loc EXCEPT ![p].attempt = @ + 1, ![p].pending = FALSE,
                               ![p].err = "none"]
         /\ obs' = [obs EXCEPT ![p] =
                      [o1 EXCEPT !.tx.waits = Append(@, calculateDelay(loc[p].attempt))]]
         /\ UNCHANGED res

\* A storage fault is injected while fewer than budget have been.
Faulty(budget) == nfaults < budget /\ nfaults' = nfaults + 1

\* Variant for sensitivity analysis: the connection is left open.
connectionLeak(o) == o

\* finally: connection.end()
connectionEnd(o) == [o EXCEPT !.tx.closed = @ + 1]

\* The attempt begins: operation() is invoked and getConnection() gives a new
\* connection.
TxConnect(p) ==
  /\ pc[p] = "w_connect"
  /\ pc' = [pc EXCEPT ![p] = "w_begin"]
  /\ obs' = [obs EXCEPT ![p].tx.calls = @ + 1, ![p].tx.opened = @ + 1]
  /\ UNCHANGED <<wallet, userLock, catalog, session, limiter, req, loc, res,
                 ledger, nreq, nfaults, nticks>>

\* getConnection() fails: the attempt holds no connection, and the error goes
\* straight to executeWithRetry's catch.
TxConnectFault(p, code, budget) ==
  /\ pc[p] = "w_connect"
  /\ Faulty(budget)
  /\ Decide(p, code, [obs[p] EXCEPT !.tx.calls = @ + 1], "w_connect")
  /\ UNCHANGED <<wallet, userLock, catalog, session, limiter, req, ledger,
                 nreq, nticks>>

\* connection.beginTransaction()
TxBegin(p) ==
  /\ pc[p] = "w_begin"
  /\ pc' = [pc EXCEPT ![p] = "w_select"]
  /\ UNCHANGED <<wallet, userLock, catalog, session, limiter, req, loc, res, obs,
                 ledger, nreq, nfaults, nticks>>

\* What the unit of work computes from the row it read: the error it throws, or
\* "OK" and the new balance.
deductWork(currentWallet, amount) ==
  [err |-> validateSufficientFunds(currentWallet, amount), new |-> currentWallet - amount]

addWork(currentWallet, amount) ==
  [err |-> validateWalletAmount(currentWallet + amount), new |-> currentWallet + amount]

\* Variant for sensitivity analysis: a read that takes no account of the row lock.
RowLockIgnored(p, u) == TRUE

\* The row lock SELECT ... FOR UPDATE needs: free, or already held by this handler.
RowLockFree(p, u) == userLock[u] \in {NoProc, p}

\* SELECT wallet FROM User WHERE user_id = ? FOR UPDATE, and the checks that follow.
\* The statement waits while another transaction holds the row's lock.
TxSelectForUpdate(p) ==
  /\ pc[p] = "w_select"
  /\ LET u == req[p].user IN
     IF u \notin accounts
       THEN \* userResult.length === 0: validateUserExists(null, userId) throws
            /\ loc' = [loc EXCEPT ![p].err = "USER_NOT_FOUND"]
            /\ pc' = [pc EXCEPT ![p] = "w_rollback"]
            /\ UNCHANGED <<userLock, obs>>
       ELSE /\ RowLockFree(p, u)
            /\ userLock' = [userLock EXCEPT ![u] = p]
            /\ obs' = [obs EXCEPT ![p].seen = "read"]
            /\ LET w == IF req[p].op = "deduct"
                          THEN deductWork(wallet[u], req[p].amount)
                          ELSE addWork(wallet[u], req[p].amount)
               IN IF w.err # "OK"
                    THEN /\ loc' = [loc EXCEPT ![p].cur = wallet[u], ![p].err = w.err]
                         /\ pc' = [pc EXCEPT ![p] = "w_rollback"]
                    ELSE /\ loc' = [loc EXCEPT ![p].cur = wallet[u], ![p].new = w.new]
                         /\ pc' = [pc EXCEPT ![p] = "w_update"]
  /\ UNCHANGED <<wallet, catalog, session, limiter, req, res, ledger,
                 nreq, nfaults, nticks>>

\* UPDATE User SET wallet = ? WHERE user_id = ?  inside the transaction: the new
\* value stays private to the transaction until it commits.  The unit of work then
\* returns its result.
TxUpdate(p) ==
  /\ pc[p] = "w_update"
  /\ loc' = [loc EXCEPT ![p].pending = TRUE]
  /\ obs' = [obs EXCEPT ![p].tx.works = @ + 1]
  /\ pc' = [pc EXCEPT ![p] = "w_commit"]
  /\ UNCHANGED <<wallet, userLock, catalog, session, limiter, req, res, ledger,
                 nreq, nfaults, nticks>>

\* connection.commit(), connection.end() and the return of the result.
TxCommit(p) ==
  /\ pc[p] = "w_commit"
  /\ LET u == req[p].user IN
     /\ wallet' = [wallet EXCEPT ![u] = loc[p].new]
     /\ userLock' = [userLock EXCEPT ![u] = NoProc]
     /\ obs' = [obs EXCEPT ![p] =
                  connectionEnd([obs[p] EXCEPT !.delta = @ + (loc[p].new - wallet[u]),
                                               !.eff = @ \cup {"User"},
                                               !.tx.commits = @ + 1])]
     /\ IF req[p].op = "add"
          THEN /\ sumAdds' = [sumAdds EXCEPT ![u] = @ + req[p].amount]
               /\ UNCHANGED sumDeducts
          ELSE /\ sumDeducts' = [sumDeducts EXCEPT ![u] = @ + req[p].amount]
               /\ UNCHANGED sumAdds
  /\ loc' = [loc EXCEPT ![p].pending = FALSE]
  /\ Answer(p, "ok", "none", "none", loc[p].attempt + 1)
  /\ UNCHANGED <<catalog, session, limiter, req, wallet0, nreq, nfaults, nticks>>

\* A statement of the attempt (begin, select, update, commit) fails.
TxFault(p, code, budget) ==
  /\ pc[p] \in {"w_begin", "w_select", "w_update", "w_commit"}
  /\ Faulty(budget)
  /\ loc' = [loc EXCEPT ![p].err = code]
  /\ pc' = [pc EXCEPT ![p] = "w_rollback"]
  /\ UNCHANGED <<wallet, userLock, catalog, session, limiter, req, res, obs, ledger,
                 nreq, nticks>>

\* The code the driver raises when the connection is lost under a statement.
LostCode == "ECONNRESET"

\* connection.commit() is interrupted by the loss of the connection.  The server had
\* either made the transaction durable before its acknowledgement was lost
\* (applied), or had not; the promise of the driver rejects with the same error in
\* both cases, and the catch block of executeTransaction runs.
TxCommitLost(p, applied, budget) ==
  /\ pc[p] = "w_commit"
  /\ Faulty(budget)
  /\ LET u == req[p].user IN
     IF applied
       THEN /\ wallet' = [wallet EXCEPT ![u] = loc[p].new]
            /\ userLock' = [userLock EXCEPT ![u] = NoProc]
            /\ obs' = [obs EXCEPT ![p].delta = @ + (loc[p].new - wallet[u]),
                                  ![p].eff = @ \cup {"User"}]
            /\ loc' = [loc EXCEPT ![p].err = LostCode, ![p].pending = FALSE]
       ELSE /\ loc' = [loc EXCEPT ![p].err = LostCode]
            /\ UNCHANGED <<wallet, userLock, obs>>
  /\ pc' = [pc EXCEPT ![p] = "w_rollback"]
  /\ UNCHANGED <<catalog, session, limiter, req, res, ledger, nreq, nticks>>

\* The row locks of the transaction of p are released.
Unlocked(p) == [u \in Users |-> IF userLock[u] = p THEN NoProc ELSE userLock[u]]

\* Variant for sensitivity analysis: the UPDATE of the attempt outlives its rollback.
rollbackKeepsWrites(p) ==
  IF loc[p].pending THEN [wallet EXCEPT ![req[p].user] = loc[p].new] ELSE wallet

\* The wallet column once the transaction of p is rolled back, by rollback() or by
\* the server when the connection ends: what the attempt wrote is discarded.
afterRollback(p) == wallet

\* executeTransaction's catch and finally (rollback, end, throw error), then
\* executeWithRetry's catch.
TxRollback(p) ==
  /\ pc[p] = "w_rollback"
  /\ userLock' = Unlocked(p)
  /\ wallet' = afterRollback(p)
  /\ Decide(p, loc[p].err, connectionEnd([obs[p] EXCEPT !.tx.rollbacks = @ + 1]),
            "w_connect")
  /\ UNCHANGED <<catalog, session, limiter, req, ledger, nreq, nfaults, nticks>>

\* The same with connection.rollback() failing, as it does when the fault of the
\* attempt was the loss of its connection: rollbackError is logged, the connection
\* is ended (the server then drops the transaction) and the error of the try block
\* is thrown.
TxRollbackFault(p) ==
  /\ pc[p] = "w_rollback"
  /\ loc[p].err \in FaultCodes \cup {LostCode}
  /\ userLock' = Unlocked(p)
  /\ wallet' = afterRollback(p)
  /\ Decide(p, loc[p].err,
            connectionEnd([obs[p] EXCEPT !.tx.failedRollbacks = @ \cup {obs[p].tx.calls}]),
            "w_connect")
  /\ UNCHANGED <<catalog, session, limiter, req, ledger, nreq, nfaults, nticks>>

\* ------------------------- initializeDatabase over the retrying getConnection
\* The errors mysql.createConnection is made to reject with: the server refusing the
\* connection (retried) and the account being denied (not retried).
ConnCodes == {"ECONNREFUSED", "ER_ACCESS_DENIED_ERROR"}

\* The Error getConnection throws when validateConnection returns false: it has no
\* code, and its message is none of those isRetryableError looks for.
validationFailed == [NoError EXCEPT !.name = "Error",
                                    !.message = <<"Connection validation failed">>]

\* initializeDatabase: executeTransaction(.., getConnection, 'initializeDatabase')
\* with the getConnection of the same module, itself an executeWithRetry around
\* mysql.createConnection.
initializeDatabase(p) ==
  /\ Begin(p, [NoReq EXCEPT !.op = "initializeDatabase"])
  /\ Proceed(p, "g_create")
  /\ UNCHANGED <<wallet, userLock, catalog, session, limiter, ledger, nfaults, nticks>>

\* The history once createConnection has been called: the first call of an attempt
\* of the transaction is also the invocation of its operation.
connectionTried(p) ==
  [obs[p] EXCEPT !.tx.creates = @ + 1,
                 !.tx.calls = IF loc[p].inner = 0 THEN @ + 1 ELSE @]

\* getConnection throws e (code) to the attempt of executeTransaction, ahead of its
\* try block: nothing is rolled back or ended, and the catch of the outer
\* executeWithRetry decides.  o is the history of the call so far.
ConnectionRefused(p, code, e, o) ==
  LET o1 == [o EXCEPT !.tx.errs = Append(@, code)] IN
  IF GiveUp(loc[p].attempt, code)
    THEN /\ AnswerRaised(p, enhanceError(e, operationName(req[p].op),
                                         loc[p].attempt + 1))
         /\ loc' = [loc EXCEPT ![p].inner = 0, ![p].err = code]
         /\ obs' = [obs EXCEPT ![p] = o1]
    ELSE /\ pc' = [pc EXCEPT ![p] = "g_create"]
         /\ loc' = [loc EXCEPT ![p].attempt = @ + 1, ![p].inner = 0]
         /\ obs' = [obs EXCEPT ![p] =
                      [o1 EXCEPT !.tx.waits = Append(@, calculateDelay(loc[p].attempt))]]
         /\ UNCHANGED res

\* getConnection: mysql.createConnection(dbConfig) resolves and SELECT 1 succeeds.
GetConnection(p) ==
  /\ pc[p] = "g_create"
  /\ obs' = [obs EXCEPT ![p] = [connectionTried(p) EXCEPT !.tx.opened = @ + 1]]
  /\ loc' = [loc EXCEPT ![p].inner = 0]
  /\ pc' = [pc EXCEPT ![p] = "i_begin"]
  /\ UNCHANGED <<wallet, userLock, catalog, session, limiter, req, res, ledger,
                 nreq, nfaults, nticks>>

\* getConnection: mysql.createConnection(dbConfig) rejects.  The executeWithRetry
\* inside getConnection sleeps and calls it again, or throws the error enhanced,
\* with its code.
GetConnectionFault(p, code, budget) ==
  /\ pc[p] = "g_create"
  /\ Faulty(budget)
  /\ IF GiveUp(loc[p].inner, code)
       THEN ConnectionRefused(p, code,
                              enhanceError(errorOf(code), "getConnection",
                                           loc[p].inner + 1),
                              connectionTried(p))
       ELSE /\ loc' = [loc EXCEPT ![p].inner = @ + 1]
            /\ obs' = [obs EXCEPT ![p] = connectionTried(p)]
            /\ UNCHANGED <<pc, res>>
  /\ UNCHANGED <<wallet, userLock, catalog, session, limiter, req, ledger,
                 nreq, nticks>>

\* getConnection: the connection is made and validateConnection returns false; the
\* connection is ended and an Error without a code is thrown, which neither
\* executeWithRetry retries.
GetConnectionInvalid(p, budget) ==
  /\ pc[p] = "g_create"
  /\ Faulty(budget)
  /\ ConnectionRefused(p, "none",
                       enhanceError(validationFailed, "getConnection",
                                    loc[p].inner + 1),
                       connectionEnd([connectionTried(p) EXCEPT !.tx.opened = @ + 1]))
  /\ UNCHANGED <<wallet, userLock, catalog, session, limiter, req, ledger,
                 nreq, nticks>>

\* connection.beginTransaction(), then SHOW TABLES LIKE 'Prize': the table exists in
\* every store of the model, so CREATE TABLE is not run.
InitDbWork(p) ==
  /\ pc[p] = "i_begin"
  /\ obs' = [obs EXCEPT ![p].tx.works = @ + 1]
  /\ pc' = [pc EXCEPT ![p] = "i_commit"]
  /\ UNCHANGED <<wallet, userLock, catalog, session, limiter, req, loc, res, ledger,
                 nreq, nfaults, nticks>>

\* connection.commit(), connection.end() and the return of the result.
InitDbCommit(p) ==
  /\ pc[p] = "i_commit"
  /\ obs' = [obs EXCEPT ![p] = connectionEnd([obs[p] EXCEPT !.tx.commits = @ + 1])]
  /\ Answer(p, "ok", "none", "none", loc[p].attempt + 1)
  /\ UNCHANGED <<wallet, userLock, catalog, session, limiter, req, loc, ledger,
                 nreq, nfaults, nticks>>

\* A statement of the attempt fails: rollback, end, and the catch of the outer
\* executeWithRetry.  The transaction has written nothing.
InitDbFault(p, code, budget) ==
  /\ pc[p] \in {"i_begin", "i_commit"}
  /\ Faulty(budget)
  /\ Decide(p, code, connectionEnd([obs[p] EXCEPT !.tx.rollbacks = @ + 1]), "g_create")
  /\ UNCHANGED <<wallet, userLock, catalog, session, limiter, req, ledger,
                 nreq, nticks>>

\* UserService.findById through executeQuery
findById(p, userId) ==
  /\ Begin(p, [NoReq EXCEPT !.op = "find", !.user = userId])
  /\ Proceed(p, "q_connect")
  /\ UNCHANGED <<wallet, userLock, catalog, session, limiter, ledger, nfaults, nticks>>

\* executeQuery: operation() is invoked and getConnection() gives a new connection.
QueryConnect(p) ==
  /\ pc[p] = "q_connect"
  /\ pc' = [pc EXCEPT ![p] = "q_run"]
  /\ obs' = [obs EXCEPT ![p].tx.calls = @ + 1, ![p].tx.opened = @ + 1]
  /\ UNCHANGED <<wallet, userLock, catalog, session, limiter, req, loc, res,
                 ledger, nreq, nfaults, nticks>>

\* executeQuery: the statement runs, finally ends the connection, the row returns.
QueryRun(p) ==
  /\ pc[p] = "q_run"
  /\ obs' = [obs EXCEPT ![p] = connectionEnd([obs[p] EXCEPT !.stored = Balance(req[p].user)])]
  /\ Answer(p, "ok", "none", "none", loc[p].attempt + 1)
  /\ UNCHANGED <<wallet, userLock, catalog, session, limiter, req, loc, ledger,
                 nreq, nfaults, nticks>>

\* executeQuery: getConnection() or the statement fails.
QueryFault(p, code, budget) ==
  /\ pc[p] \in {"q_connect", "q_run"}
  /\ Faulty(budget)
  /\ Decide(p, code,
            IF pc[p] = "q_connect" THEN [obs[p] EXCEPT !.tx.calls = @ + 1]
            ELSE connectionEnd(obs[p]),
            "q_connect")
  /\ UNCHANGED <<wallet, userLock, catalog, session, limiter, req, ledger,
                 nreq, nticks>>

\* ------------------------------------------- ticket purchase, shared
\* SELECT ticket_id, number, price FROM Ticket
\*   WHERE ticket_id IN (..) AND status = 'available'
getAvailableTickets(ticketIds) ==
  {t \in ticketIds \cap inventory : ticket[t].status = "available"}

\* History: whether the availability query found every requested ticket on sale.
availability(tickets, ticketIds) ==
  IF tickets = ticketIds THEN "available" ELSE "unavailable"

\* Variant for sensitivity analysis: reject only when no requested ticket is on sale.
countMismatchNone(tickets, ticketIds) == tickets = {}

\* tickets.length !== ticketIds.length
countMismatch(tickets, ticketIds) == Cardinality(tickets) # Cardinality(ticketIds)

\* tickets.reduce((sum, ticket) => sum + parseFloat(ticket.price), 0)
totalCost(tickets) == SumOver(price, tickets)

\* A statement of a handler that runs outside executeWithRetry fails.  Nothing is
\* rolled back: each statement before it was committed on its own.
Fault(p, at, code) ==
  /\ pc[p] \in at
  /\ nfaults < MaxFaults
  /\ nfaults' = nfaults + 1
  /\ Answer(p, "error", code, "failed", 0)

\* ------------------------------------------ REST  POST /purchase
RestPurchase(p, userId, ticketIds) ==
  /\ Begin(p, [NoReq EXCEPT !.op = "purchase", !.user = userId, !.ticketIds = ticketIds])
  /\ IF validatePurchaseInput(ticketIds)
       THEN Proceed(p, "r_tickets")
       ELSE Answer(p, "rejected", "none", "no_tickets", 0)
  /\ UNCHANGED <<wallet, userLock, catalog, session, limiter, ledger, nfaults, nticks>>

\* The availability SELECT, the count test and the total.
RestSelectTickets(p) ==
  /\ pc[p] = "r_tickets"
  /\ LET tickets == getAvailableTickets(req[p].ticketIds) IN
     /\ loc' = [loc EXCEPT ![p].tickets = tickets, ![p].totalCost = totalCost(tickets)]
     /\ obs' = [obs EXCEPT ![p].seen = availability(tickets, req[p].ticketIds)]
     /\ IF countMismatch(tickets, req[p].ticketIds)
          THEN Answer(p, "rejected", "none", "tickets_unavailable", 0)
          ELSE pc' = [pc EXCEPT ![p] = "r_user"] /\ UNCHANGED res
  /\ UNCHANGED <<wallet, userLock, catalog, session, limiter, req, ledger,
                 nreq, nfaults, nticks>>

\* SELECT wallet FROM User WHERE user_id = ?, and the balance test.
RestSelectUser(p) ==
  /\ pc[p] = "r_user"
  /\ LET u == req[p].user IN
     IF u \notin accounts
       THEN /\ Answer(p, "rejected", "none", "user_not_found", 0)
            /\ UNCHANGED <<loc, obs>>
       ELSE /\ loc' = [loc EXCEPT ![p].cur = wallet[u],
                                  ![p].new = wallet[u] - loc[p].totalCost]
            /\ obs' = [obs EXCEPT ![p].stored = wallet[u], ![p].tested = TRUE]
            /\ IF wallet[u] < loc[p].totalCost
                 THEN Answer(p, "rejected", "none", "insufficient_balance", 0)
                 ELSE pc' = [pc EXCEPT ![p] = "r_debit"] /\ UNCHANGED res
  /\ UNCHANGED <<wallet, userLock, catalog, session, limiter, req, ledger,
                 nreq, nfaults, nticks>>

\* UPDATE User SET wallet = ? WHERE user_id = ?
RestDebit(p) ==
  /\ pc[p] = "r_debit"
  /\ WriteWallet(p, req[p].user, loc[p].new)
  /\ pc' = [pc EXCEPT ![p] = "r_insert"]
  /\ UNCHANGED <<userLock, catalog, session, limiter, req, loc, res, ledger,
                 nreq, nfaults, nticks>>

\* INSERT INTO Purchase (user_id, date, total_price): the row and its insertId
InsertPurchase(userId, totalPrice) ==
  Append(purchases, [user_id |-> userId, total_price |-> totalPrice])

RestInsert(p) ==
  /\ pc[p] = "r_insert"
  /\ purchases' = InsertPurchase(req[p].user, loc[p].totalCost)
  /\ loc' = [loc EXCEPT ![p].purchaseId = Len(purchases')]
  /\ obs' = [obs EXCEPT ![p].eff = @ \cup {"Purchase"}]
  /\ pc' = [pc EXCEPT ![p] = "r_mark"]
  /\ UNCHANGED <<wallet, userLock, ticket, admin, session, limiter, req, res, ledger,
                 nreq, nfaults, nticks>>

\* UPDATE Ticket SET status = 'sold', created_by = ?, purchase_id = ?
\*   WHERE ticket_id IN (..)    -- whatever the rows' status is by now
RestMark(p) ==
  /\ pc[p] = "r_mark"
  /\ ticket' = [t \in Tickets |->
                  IF t \in req[p].ticketIds
                    THEN [ticket[t] EXCEPT !.status = "sold", !.created_by = req[p].user,
                                           !.purchase_id = loc[p].purchaseId]
                    ELSE ticket[t]]
  /\ obs' = [obs EXCEPT ![p].eff = @ \cup {"Ticket"}]
  /\ Answer(p, "ok", "none", "none", 0)
  /\ UNCHANGED <<wallet, userLock, purchases, admin, session, limiter, req, loc,
                 ledger, nreq, nfaults, nticks>>

\* catch (error): 500
RestFault(p) ==
  /\ Fault(p, {"r_tickets", "r_user", "r_debit", "r_insert", "r_mark"}, "none")
  /\ UNCHANGED <<wallet, userLock, catalog, session, limiter, req, loc, obs, ledger,
                 nreq, nticks>>

\* ------------------------------- socket  handlePurchaseTickets / login
\* AuthController.handleLogin: session.authenticate(user) with the row just read.
Login(u) ==
  /\ u \in accounts
  /\ session[u] # [isAuthenticated |-> TRUE, wallet |-> wallet[u]]
  /\ session' = [session EXCEPT ![u] = [isAuthenticated |-> TRUE, wallet |-> wallet[u]]]
  /\ UNCHANGED <<wallet, userLock, catalog, limiter, pc, req, loc, res, obs, ledger,
                 nreq, nfaults, nticks>>

SocketPurchase(p, u, ticketIds) ==
  /\ Begin(p, [NoReq EXCEPT !.op = "socket_purchase", !.user = u, !.ticketIds = ticketIds])
  /\ IF ~session[u].isAuthenticated
       THEN Answer(p, "rejected", "none", "auth_required", 0)
       ELSE IF ~validatePurchaseInput(ticketIds)
         THEN Answer(p, "rejected", "none", "no_tickets", 0)
         ELSE Proceed(p, "s_tickets")
  /\ UNCHANGED <<wallet, userLock, catalog, session, limiter, ledger, nfaults, nticks>>

\* TicketService.getAvailableTickets, the count test, the total and the test of the
\* session's wallet.
SocketSelectTickets(p) ==
  /\ pc[p] = "s_tickets"
  /\ LET tickets == getAvailableTickets(req[p].ticketIds)
         cost == totalCost(tickets)
     IN /\ loc' = [loc EXCEPT ![p].tickets = tickets, ![p].totalCost = cost]
        /\ IF countMismatch(tickets, req[p].ticketIds)
             THEN /\ Answer(p, "rejected", "none", "tickets_unavailable", 0)
                  /\ obs' = [obs EXCEPT ![p].seen = availability(tickets, req[p].ticketIds)]
             ELSE /\ obs' = [obs EXCEPT ![p].seen = availability(tickets, req[p].ticketIds),
                                        ![p].stored = wallet[req[p].user],
                                        ![p].tested = TRUE]
                  /\ IF session[req[p].user].wallet < cost
                       THEN Answer(p, "rejected", "none", "insufficient_balance", 0)
                       ELSE pc' = [pc EXCEPT ![p] = "s_insert"] /\ UNCHANGED res
  /\ UNCHANGED <<wallet, userLock, catalog, session, limiter, req, ledger,
                 nreq, nfaults, nticks>>

\* PurchaseService.createPurchase
SocketInsert(p) ==
  /\ pc[p] = "s_insert"
  /\ purchases' = InsertPurchase(req[p].user, loc[p].totalCost)
  /\ loc' = [loc EXCEPT ![p].purchaseId = Len(purchases')]
  /\ obs' = [obs EXCEPT ![p].eff = @ \cup {"Purchase"}]
  /\ pc' = [pc EXCEPT ![p] = "s_sold"]
  /\ UNCHANGED <<wallet, userLock, ticket, admin, session, limiter, req, res, ledger,
                 nreq, nfaults, nticks>>

\* TicketService.markAsSold, first statement:
\* UPDATE Ticket SET status = 'sold', created_by = ? WHERE ticket_id IN (..)
markAsSoldOwner(p) ==
  /\ pc[p] = "s_sold"
  /\ ticket' = [t \in Tickets |->
                  IF t \in req[p].ticketIds
                    THEN [ticket[t] EXCEPT !.status = "sold", !.created_by = req[p].user]
                    ELSE ticket[t]]
  /\ obs' = [obs EXCEPT ![p].eff = @ \cup {"Ticket"}]
  /\ pc' = [pc EXCEPT ![p] = "s_ref"]
  /\ UNCHANGED <<wallet, userLock, purchases, admin, session, limiter, req, loc, res,
                 ledger, nreq, nfaults, nticks>>

\* TicketService.markAsSold, second statement:
\* UPDATE Ticket SET purchase_id = ? WHERE ticket_id IN (..)
\* and, back in the handler, newWallet = session.wallet - totalCost.
markAsSoldRef(p) ==
  /\ pc[p] = "s_ref"
  /\ ticket' = [t \in Tickets |->
                  IF t \in req[p].ticketIds
                    THEN [ticket[t] EXCEPT !.purchase_id = loc[p].purchaseId]
                    ELSE ticket[t]]
  /\ loc' = [loc EXCEPT ![p].cur = session[req[p].user].wallet,
                        ![p].new = session[req[p].user].wallet - loc[p].totalCost]
  /\ pc' = [pc EXCEPT ![p] = "s_wallet"]
  /\ UNCHANGED <<wallet, userLock, purchases, admin, session, limiter, req, res, obs,
                 ledger, nreq, nfaults, nticks>>

\* UserService.updateWallet(userId, newWallet), then session.updateWallet(newWallet)
\* and purchase:success.
SocketDebit(p) ==
  /\ pc[p] = "s_wallet"
  /\ WriteWallet(p, req[p].user, loc[p].new)
  /\ session' = [session EXCEPT ![req[p].user].wallet = loc[p].new]
  /\ Answer(p, "ok", "none", "none", 0)
  /\ UNCHANGED <<userLock, catalog, limiter, req, loc, ledger, nreq, nfaults, nticks>>

\* catch (error): purchase:error
SocketFault(p) ==
  /\ Fault(p, {"s_tickets", "s_insert", "s_sold", "s_ref", "s_wallet"}, "none")
  /\ UNCHANGED <<wallet, userLock, catalog, session, limiter, req, loc, obs, ledger,
                 nreq, nticks>>

\* ------------------------------------------ PrizeService.claimPrize
\* The route's format test: six decimal digits.
validTicketNumber(n) == n \in 0..999999

\* errorHandler: the code of the response is err.code || 'INTERNAL_ERROR'
errorCode(code) == IF code = "none" THEN "INTERNAL_ERROR" ELSE code

\* SELECT .. FROM Ticket t JOIN Prize p ON t.prize_id = p.prize_id
\*   JOIN Purchase pur ON t.purchase_id = pur.purchase_id
\*   WHERE t.number = ? AND t.status = "sold"
winningTickets(n) ==
  {t \in inventory : /\ number[t] = n
                   /\ ticket[t].status = "sold"
                   /\ ticket[t].prize_id \in DOMAIN prize
                   /\ ticket[t].purchase_id \in DOMAIN purchases}

\* POST /claim up to the call of claimPrize
ClaimPrize(p, userId, ticketNumber) ==
  /\ Begin(p, [NoReq EXCEPT !.op = "claim", !.user = userId, !.ticketNumber = ticketNumber])
  /\ IF validTicketNumber(ticketNumber)
       THEN Proceed(p, "c_select")
       ELSE Answer(p, "error", "INVALID_TICKET_NUMBER_FORMAT", "none", 0)
  /\ UNCHANGED <<wallet, userLock, catalog, session, limiter, ledger, nfaults, nticks>>

\* The status the rows of that number have (what a claim finds in the store).
statusOf(n) == {ticket[t].status : t \in {x \in inventory : number[x] = n}}

\* The JOIN query and the two tests on its result.
ClaimSelect(p) ==
  /\ pc[p] = "c_select"
  /\ LET rows == winningTickets(req[p].ticketNumber) IN
     /\ obs' = [obs EXCEPT ![p].seen =
                  IF "claimed" \in statusOf(req[p].ticketNumber) THEN "claimed"
                  ELSE IF rows # {} THEN "winner" ELSE "no_winner"]
     /\ IF rows = {}
          THEN /\ Answer(p, "error", errorCode("none"), "not_winner_or_not_found", 0)
               /\ UNCHANGED loc
          ELSE LET t == CHOOSE x \in rows : TRUE IN
               IF purchases[ticket[t].purchase_id].user_id # req[p].user
                 THEN /\ Answer(p, "error", errorCode("none"), "not_owner", 0)
                      /\ UNCHANGED loc
                 ELSE /\ loc' = [loc EXCEPT ![p].ticketId = t,
                                   ![p].prizeAmount = prize[ticket[t].prize_id].amount]
                      /\ pc' = [pc EXCEPT ![p] = "c_mark"]
                      /\ UNCHANGED res
  /\ UNCHANGED <<wallet, userLock, catalog, session, limiter, req, ledger,
                 nreq, nfaults, nticks>>

\* UPDATE Ticket SET status = "claimed" WHERE ticket_id = ?
ClaimMark(p) ==
  /\ pc[p] = "c_mark"
  /\ ticket' = [ticket EXCEPT ![loc[p].ticketId].status = "claimed"]
  /\ obs' = [obs EXCEPT ![p].eff = @ \cup {"Ticket"}]
  /\ pc' = [pc EXCEPT ![p] = "c_wallet"]
  /\ UNCHANGED <<wallet, userLock, purchases, admin, session, limiter, req, loc, res,
                 ledger, nreq, nfaults, nticks>>

\* SELECT wallet FROM User WHERE user_id = ?  and newWallet = currentWallet + prizeAmount
ClaimReadWallet(p) ==
  /\ pc[p] = "c_wallet"
  /\ loc' = [loc EXCEPT ![p].cur = wallet[req[p].user],
                        ![p].new = wallet[req[p].user] + loc[p].prizeAmount]
  /\ pc' = [pc EXCEPT ![p] = "c_credit"]
  /\ UNCHANGED <<wallet, userLock, catalog, session, limiter, req, res, obs, ledger,
                 nreq, nfaults, nticks>>

\* UPDATE User SET wallet = ? WHERE user_id = ?  and the result returned
ClaimCredit(p) ==
  /\ pc[p] = "c_credit"
  /\ WriteWallet(p, req[p].user, loc[p].new)
  /\ Answer(p, "ok", "none", "none", 0)
  /\ UNCHANGED <<userLock, catalog, session, limiter, req, loc, ledger,
                 nreq, nfaults, nticks>>

\* A statement of claimPrize fails: the driver's error reaches errorHandler.
ClaimFault(p, code) ==
  /\ Fault(p, {"c_select", "c_mark", "c_wallet", "c_credit"}, errorCode(code))
  /\ UNCHANGED <<wallet, userLock, catalog, session, limiter, req, loc, obs, ledger,
                 nreq, nticks>>

\* ------------------------------------------ controllers/prizes.js  POST /claim
\* SELECT ticket_id, status FROM Ticket WHERE created_by = ? AND number = ?
ownedTickets(userId, n) ==
  {t \in inventory : ticket[t].created_by = userId /\ number[t] = n}

\* Whether a Prize row is bound to the ticket.
prizeBound(t) == ticket[t].prize_id \in DOMAIN prize

\* The head of the route: both fields of the body are required.
MockClaim(p, userId, ticketNumber) ==
  /\ BeginWithin(p, [NoReq EXCEPT !.op = "mock_claim", !.user = userId,
                                  !.ticketNumber = ticketNumber], MaxClaims)
  /\ Proceed(p, "k_select")
  /\ UNCHANGED <<wallet, userLock, catalog, session, limiter, ledger, nfaults, nticks>>

\* The ownership query, the status test and the win decided by Math.random().
MockSelect(p) ==
  /\ pc[p] = "k_select"
  /\ LET rows == ownedTickets(req[p].user, req[p].ticketNumber) IN
     IF rows = {}
       THEN /\ obs' = [obs EXCEPT ![p].seen = "not_owned"]
            /\ Answer(p, "rejected", "none", "not_owner", 0)
            /\ UNCHANGED loc
       ELSE LET t == CHOOSE x \in rows : TRUE IN
            IF ticket[t].status # "sold"
              THEN /\ obs' = [obs EXCEPT ![p].seen = ticket[t].status]
                   /\ Answer(p, "rejected", "none", "invalid_status", 0)
                   /\ UNCHANGED loc
              ELSE /\ obs' = [obs EXCEPT ![p].seen =
                                IF prizeBound(t) THEN "winner" ELSE "no_winner"]
                   /\ \E win \in BOOLEAN :
                        IF win
                          THEN /\ loc' = [loc EXCEPT ![p].ticketId = t,
                                                     ![p].prizeAmount = mockWinAmount]
                               /\ pc' = [pc EXCEPT ![p] = "k_wallet"]
                               /\ UNCHANGED res
                          ELSE /\ Answer(p, "rejected", "none", "not_winner", 0)
                               /\ UNCHANGED loc
  /\ UNCHANGED <<wallet, userLock, catalog, session, limiter, req, ledger,
                 nreq, nfaults, nticks>>

\* SELECT wallet FROM User WHERE user_id = ?  and newWallet = currentWallet + mockWinAmount
MockReadWallet(p) ==
  /\ pc[p] = "k_wallet"
  /\ IF req[p].user \notin accounts
       THEN /\ Answer(p, "rejected", "none", "user_not_found", 0)
            /\ UNCHANGED loc
       ELSE /\ loc' = [loc EXCEPT ![p].cur = wallet[req[p].user],
                                  ![p].new = wallet[req[p].user] + loc[p].prizeAmount]
            /\ pc' = [pc EXCEPT ![p] = "k_credit"]
            /\ UNCHANGED res
  /\ UNCHANGED <<wallet, userLock, catalog, session, limiter, req, obs, ledger,
                 nreq, nfaults, nticks>>

\* UPDATE User SET wallet = ? WHERE user_id = ?
MockCredit(p) ==
  /\ pc[p] = "k_credit"
  /\ WriteWallet(p, req[p].user, loc[p].new)
  /\ pc' = [pc EXCEPT ![p] = "k_mark"]
  /\ UNCHANGED <<userLock, catalog, session, limiter, req, loc, res, ledger,
                 nreq, nfaults, nticks>>

\* UPDATE Ticket SET status = 'claimed' WHERE created_by = ? AND number = ?, the test
\* of affectedRows and the response.
MockMark(p) ==
  /\ pc[p] = "k_mark"
  /\ LET rows == ownedTickets(req[p].user, req[p].ticketNumber) IN
     /\ ticket' = [t \in Tickets |->
                     IF t \in rows THEN [ticket[t] EXCEPT !.status = "claimed"]
                     ELSE ticket[t]]
     /\ IF rows = {}
          THEN /\ Answer(p, "rejected", "none", "not_updated", 0)
               /\ UNCHANGED obs
          ELSE /\ Answer(p, "ok", "none", "none", 0)
               /\ obs' = [obs EXCEPT ![p].eff = @ \cup {"Ticket"}]
  /\ UNCHANGED <<wallet, userLock, purchases, admin, session, limiter, req, loc,
                 ledger, nreq, nfaults, nticks>>

\* catch (error): 500
MockFault(p) ==
  /\ Fault(p, {"k_select", "k_wallet", "k_credit", "k_mark"}, "none")
  /\ UNCHANGED <<wallet, userLock, catalog, session, limiter, req, loc, obs, ledger,
                 nreq, nticks>>

\* ------------------------------------------ REST  POST /draws
DefaultRewards == <<1000000, 500000, 100000, 50000, 10000>>

\* The suffixes Math.random() draws: such that two, three or no tickets end with them.
Tail3s == {456, 789}
Tail2s == {56, 21}

isAdmin(u) == u \in accounts /\ role[u] \in {"owner", "admin"}

\* UserSession.isAdmin(): the role the session took from the row at login.
sessionIsAdmin(u) == role[u] \in {"owner", "admin"}

\* The rows of a set of ticket ids in ascending order of ticket_id.
RECURSIVE Ordered(_)
Ordered(S) ==
  IF S = {} THEN <<>>
  ELSE LET m == CHOOSE x \in S : \A y \in S : x <= y IN <<m>> \o Ordered(S \ {m})

\* Variant for sensitivity analysis: orders that repeat the first row of the pool.
ShufflesRepeating(pool) ==
  LET o == Ordered(pool) IN {[i \in 1..Len(o) |-> o[1]]}

\* [...pool].sort(() => Math.random() - 0.5): a permutation of the pool.  The
\* permutations taken are the first MaxShuffles rotations of the stored order.
Shuffles(pool) ==
  LET o == Ordered(pool)
      n == Len(o)
  IN {[i \in 1..n |-> o[((i - 1 + r) % n) + 1]] : r \in 0..(MaxShuffles - 1)}

\* Array.prototype.slice(0, n)
slice(s, n) == SubSeq(s, 1, IF n < Len(s) THEN n ELSE Len(s))

\* Variant for sensitivity analysis: a pool of one ticket less is let through.
poolTooSmallLax(pool) == Cardinality(pool) < minPool - 1

\* availableTickets.length < 5
poolTooSmall(pool) == Cardinality(pool) < minPool

\* SELECT ticket_id, number FROM Ticket [WHERE status = "sold"]
getTicketsForDraw(poolType) ==
  IF poolType = "sold" THEN {t \in inventory : ticket[t].status = "sold"}
  ELSE inventory

\* ticket.number.slice(-k) === digits, for the six-digit numbers and padded digits
endsWith(n, k, digits) == n % (10 ^ k) = digits

\* The validation at the head of POST /draws: the code it throws, or "OK"
validateDraw(poolType, rewards) ==
  IF poolType \notin {"sold", "all"} THEN "INVALID_POOL_TYPE"
  ELSE IF Len(rewards) # 5 THEN "INVALID_REWARDS"
  ELSE IF \E i \in 1..Len(rewards) : rewards[i] < 0 THEN "INVALID_REWARD_AMOUNT"
  ELSE "OK"

RestDraw(p, userId, poolType, rewards) ==
  /\ Begin(p, [NoReq EXCEPT !.op = "draw", !.user = userId, !.poolType = poolType,
                            !.rewards = rewards])
  /\ IF ~isAdmin(userId)
       THEN Answer(p, "rejected", "INSUFFICIENT_PERMISSIONS", "none", 0)
       ELSE IF validateDraw(poolType, rewards) # "OK"
         THEN Answer(p, "error", validateDraw(poolType, rewards), "none", 0)
         ELSE Proceed(p, "d_select")
  /\ UNCHANGED <<wallet, userLock, catalog, session, limiter, ledger, nfaults, nticks>>

\* beginTransaction, the pool query, the size tests, the shuffle and the two suffixes
DrawSelect(p) ==
  /\ pc[p] = "d_select"
  /\ LET pool == getTicketsForDraw(req[p].poolType) IN
     /\ obs' = [obs EXCEPT ![p].pool = pool,
                           ![p].seen = IF Cardinality(pool) < minPool THEN "short"
                                       ELSE "enough"]
     /\ IF poolTooSmall(pool)
          THEN /\ Answer(p, "error", "INSUFFICIENT_TICKETS", "none", 0)
               /\ UNCHANGED loc
          ELSE /\ \E order \in Shuffles(pool), tail3Digits \in Tail3s, tail2Digits \in Tail2s :
                    loc' = [loc EXCEPT
                      ![p].winners = slice(order, 3),
                      ![p].tails = <<tail3Digits, tail2Digits>>,
                      ![p].tail3Winners = {t \in pool : endsWith(number[t], 3, tail3Digits)},
                      ![p].tail2Winners = {t \in pool : endsWith(number[t], 2, tail2Digits)}]
               /\ pc' = [pc EXCEPT ![p] = "d_commit"]
               /\ UNCHANGED res
  /\ UNCHANGED <<wallet, userLock, catalog, session, limiter, req, ledger,
                 nreq, nfaults, nticks>>

\* The prize_id each ticket holds after the statements of the draw: cleared, then
\* linked to ranks 1..3, then to the tail-3 prize, then to the tail-2 prize.
linkedPrize(t, mainWinners, tail3Winners, tail2Winners) ==
  IF t \in tail2Winners THEN 5
  ELSE IF t \in tail3Winners THEN 4
  ELSE IF \E i \in 1..Len(mainWinners) : mainWinners[i] = t
    THEN CHOOSE i \in 1..Len(mainWinners) :
           mainWinners[i] = t /\ \A j \in 1..Len(mainWinners) : mainWinners[j] = t => j <= i
    ELSE Null

\* UPDATE Ticket SET prize_id = NULL; DELETE FROM Prize; the five INSERTs with their
\* UPDATE Ticket SET prize_id; commit.  The statements run in one transaction and
\* take effect together at the commit.  prize_id is the position of the row.
DrawCommit(p) ==
  /\ pc[p] = "d_commit"
  /\ prize' = [r \in 1..5 |-> [rank |-> r, amount |-> req[p].rewards[r]]]
  /\ ticket' = [t \in Tickets |->
                  [ticket[t] EXCEPT !.prize_id =
                     IF t \in inventory
                       THEN linkedPrize(t, loc[p].winners, loc[p].tail3Winners,
                                        loc[p].tail2Winners)
                       ELSE @]]
  /\ obs' = [obs EXCEPT ![p].eff = @ \cup {"Prize", "Ticket"},
                        ![p].bound = [r \in 1..5 |->
                           {t \in inventory :
                              linkedPrize(t, loc[p].winners, loc[p].tail3Winners,
                                          loc[p].tail2Winners) = r}]]
  /\ Answer(p, "ok", "none", "none", 0)
  /\ UNCHANGED <<wallet, userLock, purchases, uniqueRank, lastDrawResult, accounts,
                 inventory, stock, session, limiter, req, loc, ledger, nreq, nfaults, nticks>>

\* A statement of the transaction fails: rollback, and errorHandler answers.
DrawFault(p, code) ==
  /\ pc[p] \in {"d_select", "d_commit"}
  /\ Faulty(MaxFaults)
  /\ loc' = [loc EXCEPT ![p].err = code]
  /\ pc' = [pc EXCEPT ![p] = "d_rollback"]
  /\ UNCHANGED <<wallet, userLock, catalog, session, limiter, req, res, obs, ledger,
                 nreq, nticks>>

\* The code of the error connection.rollback() throws on a lost connection.
RollbackError == "PROTOCOL_CONNECTION_LOST"

\* catch (error) { await connection.rollback(); throw error; }: the rollback is
\* done, the error of the try block reaches errorHandler.
DrawRollback(p) ==
  /\ pc[p] = "d_rollback"
  /\ obs' = [obs EXCEPT ![p].tx.errs = <<loc[p].err>>, ![p].tx.rollbacks = 1]
  /\ Answer(p, "error", errorCode(loc[p].err), "failed", 0)
  /\ UNCHANGED <<wallet, userLock, catalog, session, limiter, req, loc, ledger,
                 nreq, nfaults, nticks>>

\* The same with connection.rollback() failing: the await throws inside the catch,
\* and what reaches errorHandler is the error of the rollback.
DrawRollbackFault(p) ==
  /\ pc[p] = "d_rollback"
  /\ obs' = [obs EXCEPT ![p].tx.errs = <<loc[p].err>>, ![p].tx.failedRollbacks = {1}]
  /\ Answer(p, "error", errorCode(RollbackError), "failed", 0)
  /\ UNCHANGED <<wallet, userLock, catalog, session, limiter, req, loc, ledger,
                 nreq, nfaults, nticks>>

\* ------------------------------------------ socket  handleDrawPrizes
\* helpers.validateDrawInput
validateDrawInput(poolType, rewards) ==
  /\ poolType # "none"
  /\ Len(rewards) = 5
  /\ \A i \in 1..Len(rewards) : rewards[i] > 0

\* The code of the draw-error a pool of fewer than five tickets is answered with.
shortPoolCode(poolType, pool) ==
  IF poolType = "sold" /\ pool = {} THEN "NO_SOLD_TICKETS"
  ELSE IF poolType = "sold" THEN "INSUFFICIENT_SOLD_TICKETS"
  ELSE "INSUFFICIENT_TICKETS"

\* PrizeService.createPrizes: the metadata record of rank 0, then one row a winner.
prizeRows(winners, rewards) ==
  <<[rank |-> 0, amount |-> 0]>>
    \o [r \in 1..Len(winners) |-> [rank |-> r, amount |-> rewards[r]]]

SocketDraw(p, userId, poolType, rewards) ==
  /\ Begin(p, [NoReq EXCEPT !.op = "socket_draw", !.user = userId,
                            !.poolType = poolType, !.rewards = rewards])
  /\ IF ~(session[userId].isAuthenticated /\ sessionIsAdmin(userId))
       THEN Answer(p, "rejected", "none", "forbidden", 0)
       ELSE IF ~validateDrawInput(poolType, rewards)
         THEN Answer(p, "rejected", "none", "invalid_input", 0)
         ELSE Proceed(p, "w_pool")
  /\ UNCHANGED <<wallet, userLock, catalog, session, limiter, ledger, nfaults, nticks>>

\* TicketService.getTicketsForDraw, the size tests and the choice of the five winners
SDrawPool(p) ==
  /\ pc[p] = "w_pool"
  /\ LET pool == getTicketsForDraw(req[p].poolType) IN
     /\ obs' = [obs EXCEPT ![p].pool = pool,
                           ![p].seen = IF Cardinality(pool) < minPool THEN "short"
                                       ELSE "enough"]
     /\ IF poolTooSmall(pool)
          THEN /\ Answer(p, "error", shortPoolCode(req[p].poolType, pool), "none", 0)
               /\ UNCHANGED loc
          ELSE /\ \E order \in Shuffles(pool) :
                    loc' = [loc EXCEPT ![p].winners = slice(order, 5),
                                       ![p].queue = prizeRows(slice(order, 5),
                                                              req[p].rewards)]
               /\ pc' = [pc EXCEPT ![p] = "w_clear"]
               /\ UNCHANGED res
  /\ UNCHANGED <<wallet, userLock, catalog, session, limiter, req, ledger,
                 nreq, nfaults, nticks>>

\* PrizeService.clearAllPrizes: DELETE FROM Prize and AUTO_INCREMENT = 1.  The
\* foreign key of Ticket.prize_id is ON DELETE SET NULL.
SDrawClear(p) ==
  /\ pc[p] = "w_clear"
  /\ prize' = <<>>
  /\ ticket' = [t \in Tickets |-> [ticket[t] EXCEPT !.prize_id = Null]]
  /\ obs' = [obs EXCEPT ![p].eff = @ \cup {"Prize"}]
  /\ pc' = [pc EXCEPT ![p] = "w_insert"]
  /\ UNCHANGED <<wallet, userLock, purchases, uniqueRank, lastDrawResult, accounts,
                 inventory, stock, session, limiter, req, loc, res, ledger, nreq, nfaults,
                 nticks>>

\* Whether INSERT INTO Prize of that rank meets the unique key.
duplicateRank(rank) == uniqueRank /\ \E i \in DOMAIN prize : prize[i].rank = rank

\* One INSERT INTO Prize of createPrizes.  The insert of the metadata record is
\* awaited on its own; the five that follow are queued together (Promise.all), so
\* each of them runs whether or not one before it failed.
SDrawInsert(p) ==
  /\ pc[p] = "w_insert"
  /\ loc[p].queue # <<>>
  /\ LET row == Head(loc[p].queue)
         dup == duplicateRank(row.rank)
         err == IF dup THEN "ER_DUP_ENTRY" ELSE loc[p].err
         last == Len(loc[p].queue) = 1
     IN /\ prize' = IF dup THEN prize ELSE Append(prize, row)
        /\ loc' = [loc EXCEPT ![p].queue = Tail(@), ![p].err = err]
        /\ obs' = [obs EXCEPT ![p].eff = IF dup THEN @ ELSE @ \cup {"Prize"}]
        /\ IF (dup /\ row.rank = 0) \/ (last /\ err # "none")
             THEN Answer(p, "error", "none", "duplicate", 0)
             ELSE /\ pc' = [pc EXCEPT ![p] = IF last THEN "w_result" ELSE "w_insert"]
                  /\ UNCHANGED res
  /\ UNCHANGED <<wallet, userLock, ticket, purchases, uniqueRank, lastDrawResult,
                 accounts, inventory, stock, session, limiter, req, ledger, nreq, nfaults,
                 nticks>>

\* global.lastDrawResult, PrizeService.getPrizesByRank and admin:draw-success
SDrawResult(p) ==
  /\ pc[p] = "w_result"
  /\ lastDrawResult' = loc[p].winners
  /\ obs' = [obs EXCEPT ![p].bound = [r \in 1..Len(loc[p].winners) |->
                                      {loc[p].winners[r]}]]
  /\ Answer(p, "ok", "none", "none", 0)
  /\ UNCHANGED <<wallet, userLock, ticket, purchases, prize, uniqueRank, accounts,
                 inventory, stock, session, limiter, req, loc, ledger, nreq, nfaults, nticks>>

\* catch (error): admin:draw-error
SDrawFault(p) ==
  /\ Fault(p, {"w_pool", "w_clear", "w_insert", "w_result"}, "none")
  /\ UNCHANGED <<wallet, userLock, catalog, session, limiter, req, loc, obs, ledger,
                 nreq, nticks>>

\* ----------------------------------------------------------- system reset
\* A ticket row as the generation of tickets inserts it.
FreshTicket == [status |-> "available", created_by |-> 1, purchase_id |-> Null,
                prize_id |-> Null]

\* The routes that run the reset of POST /reset.
RestResets == {"reset", "guarded_reset"}

\* The operation whose counter a request holds while it runs.
guardOf(op) ==
  IF op = "create_tickets" THEN "ticket_creation"
  ELSE IF op = "guarded_reset" THEN "system_reset"
  ELSE "none"

\* SystemValidator.validateConcurrentOperations: whether the call passes, and the
\* map it leaves.
validateConcurrentOperations(operation, maxConcurrent) ==
  LET current == concurrentOps[operation]
  IN IF current >= maxConcurrent
       THEN [ok |-> FALSE, ops |-> concurrentOps]
       ELSE [ok |-> TRUE, ops |-> [concurrentOps EXCEPT ![operation] = current + 1]]

\* Variant for sensitivity analysis: a cleanup that leaves the counter as it is.
cleanupLost(operation) == concurrentOps

\* The cleanup function validateConcurrentOperations returns: the map after it.
cleanup(operation) ==
  LET newCount == concurrentOps[operation] - 1
  IN [concurrentOps EXCEPT ![operation] = IF newCount <= 0 THEN 0 ELSE newCount]

\* finally { cleanup() } of a guarded handler; the other handlers hold no counter.
Release(p) ==
  concurrentOps' = IF guardOf(req[p].op) \in GuardedOps
                     THEN cleanup(guardOf(req[p].op))
                     ELSE concurrentOps

\* The head of a guarded route: requireAdmin, validateSystemResources, then
\* validateConcurrentOperations(operation, 1).
GuardedCall(p, r, heapUsedHigh, first) ==
  /\ Begin(p, r)
  /\ LET g == validateConcurrentOperations(guardOf(r.op), 1) IN
     IF ~isAdmin(r.user)
       THEN /\ Answer(p, "rejected", "INSUFFICIENT_PERMISSIONS", "none", 0)
            /\ UNCHANGED concurrentOps
     ELSE IF heapUsedHigh
       THEN /\ Answer(p, "error", "HIGH_MEMORY_USAGE", "none", 0)
            /\ UNCHANGED concurrentOps
     ELSE IF ~g.ok
       THEN /\ Answer(p, "error", "TOO_MANY_CONCURRENT_OPERATIONS", "none", 0)
            /\ UNCHANGED concurrentOps
     ELSE /\ concurrentOps' = g.ops
          /\ Proceed(p, first)
  /\ UNCHANGED <<wallet, userLock, ticket, purchases, prize, uniqueRank, lastDrawResult,
                 accounts, inventory, created, session, limiter, ledger, nfaults,
                 nticks>>

\* Variant for sensitivity analysis: the delete takes the rows of every role.
deletesAnyRole(r) == TRUE

\* DELETE FROM User WHERE role NOT IN ('admin', 'owner')
deletesRole(r) == r \notin {"admin", "owner"}

\* UserService.deleteMemberUsers: DELETE FROM User WHERE role = 'member'
deleteMemberUsers(r) == r = "member"

Privileged(S) == {u \in S : role[u] \in {"admin", "owner"}}

\* The order of the DELETE statements of POST /reset and of handleReset.
RestResetOrder == <<"Purchase", "Prize", "Ticket", "User">>
SocketResetOrder == <<"Prize", "Purchase", "Ticket", "User">>

\* router.post('/reset', authenticateToken, requireAdmin, ...)
RestReset(p, userId) ==
  /\ Begin(p, [NoReq EXCEPT !.op = "reset", !.user = userId])
  /\ IF ~isAdmin(userId)
       THEN Answer(p, "rejected", "INSUFFICIENT_PERMISSIONS", "none", 0)
       ELSE Proceed(p, "z_admin")
  /\ UNCHANGED <<wallet, userLock, catalog, session, limiter, ledger, nfaults, nticks>>

\* SELECT user_id, username FROM User WHERE role IN ('owner', 'admin') LIMIT 1
ResetFindAdmin(p) ==
  /\ pc[p] = "z_admin"
  /\ IF Privileged(accounts) = {}
       THEN /\ Answer(p, "error", "none", "no_admin", 0)
            /\ Release(p)
       ELSE /\ pc' = [pc EXCEPT ![p] = "z_delete"]
            /\ UNCHANGED <<res, concurrentOps>>
  /\ UNCHANGED <<wallet, userLock, ticket, purchases, prize, uniqueRank, lastDrawResult,
                 accounts, inventory, created, session, limiter, req, loc, obs, ledger,
                 nreq, nfaults, nticks>>

\* POST /reset behind validateSystemResources and validateConcurrentOperations
GuardedReset(p, userId, heapUsedHigh) ==
  GuardedCall(p, [NoReq EXCEPT !.op = "guarded_reset", !.user = userId], heapUsedHigh,
              "z_admin")

\* AdminController.handleReset
SocketReset(p, userId) ==
  /\ Begin(p, [NoReq EXCEPT !.op = "socket_reset", !.user = userId])
  /\ IF ~(session[userId].isAuthenticated /\ sessionIsAdmin(userId))
       THEN Answer(p, "rejected", "none", "forbidden", 0)
       ELSE Proceed(p, "z_delete")
  /\ UNCHANGED <<wallet, userLock, catalog, session, limiter, ledger, nfaults, nticks>>

\* The rows of Purchase that stay when only the users of keep stay (ON DELETE
\* CASCADE), and the purchase_id a ticket then holds (ON DELETE SET NULL).
keptPurchases(keep) == SelectSeq(purchases, LAMBDA r : r.user_id \in keep)
keptPurchaseId(i, keep) ==
  IF i = Null \/ i > Len(purchases) \/ purchases[i].user_id \notin keep THEN Null
  ELSE Cardinality({j \in 1..i : purchases[j].user_id \in keep})

\* One DELETE statement of the reset, autocommitted, with what the foreign keys of
\* the schema do to the rows that refer to the deleted ones.
ResetDelete(p) ==
  /\ pc[p] = "z_delete"
  /\ LET order == IF req[p].op \in RestResets THEN RestResetOrder ELSE SocketResetOrder
         done == Cardinality(obs[p].eff)
         table == order[done + 1]
         keep == IF table # "User" THEN accounts
                 ELSE IF req[p].op \in RestResets
                   THEN {u \in accounts : ~deletesRole(role[u])}
                   ELSE {u \in accounts : ~deleteMemberUsers(role[u])}
     IN /\ purchases' = IF table = "Purchase" THEN <<>> ELSE keptPurchases(keep)
        /\ prize' = IF table = "Prize" THEN <<>> ELSE prize
        /\ inventory' = IF table = "Ticket" THEN {} ELSE inventory
        /\ created' = IF table = "Ticket" THEN <<>>
                       ELSE [i \in DOMAIN created |->
                               [created[i] EXCEPT
                                  !.created_by = IF @ \in keep THEN @ ELSE Null]]
        /\ accounts' = keep
        /\ ticket' = [t \in Tickets |->
             IF table = "Ticket" THEN FreshTicket
             ELSE IF table = "Purchase" THEN [ticket[t] EXCEPT !.purchase_id = Null]
             ELSE IF table = "Prize" THEN [ticket[t] EXCEPT !.prize_id = Null]
             ELSE [ticket[t] EXCEPT
                     !.purchase_id = keptPurchaseId(@, keep),
                     !.created_by = IF @ \in keep \/ t \notin inventory THEN @ ELSE Null]]
        /\ obs' = [obs EXCEPT ![p].eff = @ \cup {table}]
        /\ pc' = [pc EXCEPT ![p] = IF done + 1 = Len(order) THEN "z_finish"
                                     ELSE "z_delete"]
  /\ UNCHANGED <<wallet, userLock, uniqueRank, lastDrawResult, concurrentOps, session,
                 limiter, req, loc, res, ledger, nreq, nfaults, nticks>>

\* handleReset: global.lastDrawResult = null; POST /reset: the verification counts.
\* Both then answer with success.
ResetFinish(p) ==
  /\ pc[p] = "z_finish"
  /\ lastDrawResult' = IF req[p].op = "socket_reset" THEN <<>> ELSE lastDrawResult
  /\ Answer(p, "ok", "none", "none", 0)
  /\ Release(p)
  /\ UNCHANGED <<wallet, userLock, ticket, purchases, prize, uniqueRank, accounts,
                 inventory, created, session, limiter, req, loc, obs, ledger, nreq,
                 nfaults, nticks>>

\* A statement of the reset fails: the catch answers, nothing is undone.
ResetFault(p) ==
  /\ Fault(p, {"z_admin", "z_delete", "z_finish"}, "none")
  /\ Release(p)
  /\ UNCHANGED <<wallet, userLock, ticket, purchases, prize, uniqueRank, lastDrawResult,
                 accounts, inventory, created, session, limiter, req, loc, obs, ledger,
                 nreq, nticks>>

\* ------------------------- ticket creation: POST /create-tickets, POST /create
\* n.toString(): the decimal digits of n.
RECURSIVE toString(_)
toString(n) == IF n < 10 THEN <<n>> ELSE Append(toString(n \div 10), n % 10)

\* s.padStart(targetLength, fill)
RECURSIVE padStart(_, _, _)
padStart(s, targetLength, fill) ==
  IF Len(s) >= targetLength THEN s ELSE padStart(<<fill>> \o s, targetLength, fill)

\* The Set of strings the generating loop can build, as the array Array.from gives:
\* count different strings in the order they were drawn.
generateLotteryNumbers(count) ==
  {[i \in 1..count |-> padStart(toString(f[i]), 6, 0)] :
     f \in {g \in [1..count -> NumberPool] :
              \A i \in 1..count, j \in 1..count : i # j => g[i] # g[j]}}

\* The number column of the rows of Ticket.
ticketNumbers ==
  {padStart(toString(number[t]), 6, 0) : t \in inventory}
    \cup {created[i].number : i \in DOMAIN created}

\* Variant for sensitivity analysis: a Ticket table without the unique key.
duplicateEntryNoKey(batch) == FALSE

\* UNIQUE KEY number: the INSERT fails when a number of the batch is in the table.
duplicateEntry(batch) == \E i \in DOMAIN batch : batch[i] \in ticketNumbers

\* router.post('/create-tickets', authenticateToken, requireAdmin, ...)
CreateTickets(p, userId, heapUsedHigh) ==
  GuardedCall(p, [NoReq EXCEPT !.op = "create_tickets", !.user = userId], heapUsedHigh,
              "k_count")

\* router.post('/create', ...): the public route, with no guard
PublicCreate(p) ==
  /\ Begin(p, [NoReq EXCEPT !.op = "create"])
  /\ Proceed(p, "k_count")
  /\ UNCHANGED <<wallet, userLock, catalog, session, limiter, ledger, nfaults, nticks>>

\* SELECT COUNT(*) as total FROM Ticket
CreateCount(p) ==
  /\ pc[p] = "k_count"
  /\ IF Cardinality(inventory) + Len(created) > 0
       THEN /\ Answer(p, "error", "TICKETS_ALREADY_EXIST", "none", 0)
            /\ Release(p)
       ELSE /\ pc' = [pc EXCEPT ![p] = "k_admin"]
            /\ UNCHANGED <<res, concurrentOps>>
  /\ UNCHANGED <<wallet, userLock, ticket, purchases, prize, uniqueRank, lastDrawResult,
                 accounts, inventory, created, session, limiter, req, loc, obs, ledger,
                 nreq, nfaults, nticks>>

\* SELECT user_id FROM User WHERE role IN ('owner', 'admin') ORDER BY user_id LIMIT 1
CreateFindAdmin(p) ==
  /\ pc[p] = "k_admin"
  /\ loc' = [loc EXCEPT ![p].adminUserId =
               IF Privileged(accounts) = {} THEN 1
               ELSE CHOOSE u \in Privileged(accounts) :
                      \A v \in Privileged(accounts) : u <= v]
  /\ pc' = [pc EXCEPT ![p] = "k_alter"]
  /\ UNCHANGED <<wallet, userLock, catalog, session, limiter, req, res, obs, ledger,
                 nreq, nfaults, nticks>>

\* ALTER TABLE Ticket AUTO_INCREMENT = 1, then the loop that generates the numbers.
CreateAlter(p, numbers) ==
  /\ pc[p] = "k_alter"
  /\ numbers \in generateLotteryNumbers(desiredCount)
  /\ loc' = [loc EXCEPT ![p].numbers = numbers]
  /\ pc' = [pc EXCEPT ![p] = "k_insert"]
  /\ UNCHANGED <<wallet, userLock, catalog, session, limiter, req, res, obs, ledger,
                 nreq, nfaults, nticks>>

\* INSERT INTO Ticket (number, price, created_by) VALUES ...  for one batch
CreateInsert(p) ==
  /\ pc[p] = "k_insert"
  /\ LET i == loc[p].inserted
         batch == SubSeq(loc[p].numbers, i + 1,
                         IF i + batchSize > Len(loc[p].numbers)
                           THEN Len(loc[p].numbers) ELSE i + batchSize)
     IN IF duplicateEntry(batch)
          THEN /\ Answer(p, "error", "ER_DUP_ENTRY", "failed", 0)
               /\ Release(p)
               /\ UNCHANGED <<created, loc, obs>>
          ELSE /\ created' = created \o
                    [j \in DOMAIN batch |->
                       [number |-> batch[j], status |-> "available",
                        created_by |-> loc[p].adminUserId, purchase_id |-> Null,
                        prize_id |-> Null]]
               /\ loc' = [loc EXCEPT ![p].inserted = i + Len(batch)]
               /\ obs' = [obs EXCEPT ![p].eff = @ \cup {"Ticket"}]
               /\ pc' = [pc EXCEPT ![p] = IF i + Len(batch) >= Len(loc[p].numbers)
                                            THEN "k_verify" ELSE "k_insert"]
               /\ UNCHANGED <<res, concurrentOps>>
  /\ UNCHANGED <<wallet, userLock, ticket, purchases, prize, uniqueRank, lastDrawResult,
                 accounts, inventory, session, limiter, req, ledger, nreq, nfaults,
                 nticks>>

\* The three SELECTs that verify the result, and sendSuccess.
CreateVerify(p) ==
  /\ pc[p] = "k_verify"
  /\ obs' = [obs EXCEPT ![p].stored = Cardinality(inventory) + Len(created)]
  /\ Answer(p, "ok", "none", "none", 0)
  /\ Release(p)
  /\ UNCHANGED <<wallet, userLock, ticket, purchases, prize, uniqueRank, lastDrawResult,
                 accounts, inventory, created, session, limiter, req, loc, ledger,
                 nreq, nfaults, nticks>>

\* A statement of the creation fails: the rows inserted so far stay.
CreateFault(p) ==
  /\ Fault(p, {"k_count", "k_admin", "k_alter", "k_insert", "k_verify"}, "none")
  /\ Release(p)
  /\ UNCHANGED <<wallet, userLock, ticket, purchases, prize, uniqueRank, lastDrawResult,
                 accounts, inventory, created, session, limiter, req, loc, obs, ledger,
                 nreq, nticks>>

\* ------------------------------------------------------ initial states
\* initializeLotteryTickets: every ticket on sale, created by the admin.

\* The store as the program first serves requests.
FreshStore ==
  [wallet |-> [u \in Users |-> IF u = 1 THEN 100 ELSE 200],
   ticket |-> [t \in Tickets |-> FreshTicket],
   purchases |-> <<>>,
   prize |-> <<>>,
   uniqueRank |-> TRUE,
   accounts |-> Users,
   inventory |-> Tickets,
   signedIn |-> {}]

\* The store after user 2 bought ticket 1 and a draw made it the first prize.
DrawnStore ==
  [wallet |-> [u \in Users |-> IF u = 1 THEN 100 ELSE 200 - price[1]],
   ticket |-> [t \in Tickets |->
                 IF t = 1 THEN [status |-> "sold", created_by |-> 2, purchase_id |-> 1,
                                prize_id |-> 1]
                 ELSE FreshTicket],
   purchases |-> <<[user_id |-> 2, total_price |-> price[1]]>>,
   prize |-> <<[rank |-> 1, amount |-> 1000000]>>,
   uniqueRank |-> TRUE,
   accounts |-> Users,
   inventory |-> Tickets,
   signedIn |-> {}]

\* The drawn store whose owner row is gone from User (removed in the database by
\* hand) while the owner's socket session, opened before, is still signed in.
OrphanStore == [DrawnStore EXCEPT !.accounts = {2}, !.signedIn = {1}]

\* The store after user 2 bought the tickets 1..k in one purchase; the Prize table was
\* created with or without the unique key on rank.
SoldStore(k, unique) ==
  [wallet |-> [u \in Users |-> 100],
   ticket |-> [t \in Tickets |->
                 IF t <= k THEN [status |-> "sold", created_by |-> 2, purchase_id |-> 1,
                                 prize_id |-> Null]
                 ELSE FreshTicket],
   purchases |-> <<[user_id |-> 2, total_price |-> k * 80]>>,
   prize |-> <<>>,
   uniqueRank |-> unique,
   accounts |-> Users,
   inventory |-> Tickets,
   signedIn |-> {}]

\* Calls of the current window that the limiter already holds for every key.
InitRateFill == {0, RateMaxRequests - 1}

Start(stores, fills) ==
  /\ \E s \in stores : /\ wallet = s.wallet
                       /\ ticket = s.ticket
                       /\ purchases = s.purchases
                       /\ prize = s.prize
                       /\ uniqueRank = s.uniqueRank
                       /\ accounts = s.accounts
                       /\ inventory = s.inventory
                       /\ session = [u \in Users |->
                            IF u \in s.signedIn
                              THEN [isAuthenticated |-> TRUE, wallet |-> s.wallet[u]]
                              ELSE [isAuthenticated |-> FALSE, wallet |-> 0]]
  /\ lastDrawResult = <<>>
  /\ created = <<>>
  /\ concurrentOps = [o \in GuardedOps |-> 0]
  /\ wallet0 = wallet
  /\ userLock = [u \in Users |-> NoProc]
  /\ \E n \in fills :
       requestCounts = [k \in RateKeys |-> [i \in 1..n |-> 0]]
  /\ now = 0
  /\ pc = [p \in Procs |-> "idle"]
  /\ req = [p \in Procs |-> NoReq]
  /\ loc = [p \in Procs |-> NoLoc]
  /\ res = [p \in Procs |-> NoRes]
  /\ obs = [p \in Procs |-> NoObs]
  /\ sumAdds = [u \in Users |-> 0]
  /\ sumDeducts = [u \in Users |-> 0]
  /\ nreq = 0 /\ nfaults = 0 /\ nticks = 0

Init == Start({FreshStore, DrawnStore}, InitRateFill)
InitWallet == Start({FreshStore}, InitRateFill)
InitPurchase == Start({FreshStore}, {0})
InitClaim == Start({DrawnStore}, {0})
InitRetry == Start({FreshStore}, {0})
InitAckLoss == Start({FreshStore}, {0})
InitConnect == Start({FreshStore}, {0})
\* The store after a reset: no rows in Ticket, Purchase or Prize.
EmptyStore == [FreshStore EXCEPT !.inventory = {}]
InitCreate == Start({EmptyStore}, {0})
InitGuard == Start({EmptyStore, DrawnStore}, {0})
InitSweep == Start({FreshStore}, {0})
InitLedger == Start({DrawnStore}, {0})
InitAmount == Start({FreshStore}, {0})
InitRate == Start({FreshStore}, {RateMaxRequests - 1, RateMaxRequests})
InitReset == Start({DrawnStore, OrphanStore}, {0})
\* How many tickets the draw finds sold.
SoldCounts == {4, 5}
InitDraw == Start({SoldStore(k, unique) : k \in SoldCounts, unique \in BOOLEAN}, {0})

\* ------------------------------------------------------ specifications
WalletAmounts == {50, 150, WalletLimit + 1}
RetryUser == 2
RetryAmounts == {50, 250}
RateAmount == 50
\* Amounts on both sides of each bound of validateWalletAmount.
BoundaryAmounts == {-1, 0, 1, WalletLimit, WalletLimit + 1}
RateSteps == {1, RateWindowMs - 1, RateWindowMs}
SweepSteps == {RateWindowMs, maxAge}
PurchaseSets == SUBSET Counter
ClaimNumbers == {number[t] : t \in Counter} \cup {1234567}
PoolTypes == {"sold", "all"}
RewardInputs == {DefaultRewards, <<100, 50>>}

NextWallet ==
  \/ \E p \in Procs, u \in UserIds, a \in WalletAmounts : deductFromWallet(p, u, a)
  \/ \E p \in Procs, u \in UserIds, a \in WalletAmounts : addToWallet(p, u, a)
  \/ \E p \in Procs : TxConnect(p)
  \/ \E p \in Procs, c \in FaultCodes : TxConnectFault(p, c, MaxFaults)
  \/ \E p \in Procs : TxBegin(p)
  \/ \E p \in Procs : TxSelectForUpdate(p)
  \/ \E p \in Procs : TxUpdate(p)
  \/ \E p \in Procs : TxCommit(p)
  \/ \E p \in Procs, c \in FaultCodes : TxFault(p, c, MaxFaults)
  \/ \E p \in Procs : TxRollback(p)
  \/ \E p \in Procs : TxRollbackFault(p)

\* The calls that go through the retry executor, with up to MaxTxFaults faults.
NextRetry ==
  \/ \E p \in Procs, a \in RetryAmounts : deductFromWallet(p, RetryUser, a)
  \/ \E p \in Procs, a \in RetryAmounts : addToWallet(p, RetryUser, a)
  \/ \E p \in Procs : findById(p, RetryUser)
  \/ \E p \in Procs : TxConnect(p)
  \/ \E p \in Procs, c \in FaultCodes : TxConnectFault(p, c, MaxTxFaults)
  \/ \E p \in Procs : TxBegin(p)
  \/ \E p \in Procs : TxSelectForUpdate(p)
  \/ \E p \in Procs : TxUpdate(p)
  \/ \E p \in Procs : TxCommit(p)
  \/ \E p \in Procs, c \in FaultCodes : TxFault(p, c, MaxTxFaults)
  \/ \E p \in Procs : TxRollback(p)
  \/ \E p \in Procs : TxRollbackFault(p)
  \/ \E p \in Procs : QueryConnect(p)
  \/ \E p \in Procs : QueryRun(p)
  \/ \E p \in Procs, c \in FaultCodes : QueryFault(p, c, MaxTxFaults)

\* The wallet mutations of one account against the clock.
NextRate ==
  \/ \E p \in Procs : deductFromWallet(p, RetryUser, RateAmount)
  \/ \E p \in Procs : addToWallet(p, RetryUser, RateAmount)
  \/ \E p \in Procs : TxConnect(p)
  \/ \E p \in Procs : TxBegin(p)
  \/ \E p \in Procs : TxSelectForUpdate(p)
  \/ \E p \in Procs : TxUpdate(p)
  \/ \E p \in Procs : TxCommit(p)
  \/ \E ms \in RateSteps : TickBy(ms, MaxRateTicks)

\* The wallet mutations of one account with amounts at the bounds.
NextAmount ==
  \/ \E p \in Procs, a \in BoundaryAmounts : deductFromWallet(p, RetryUser, a)
  \/ \E p \in Procs, a \in BoundaryAmounts : addToWallet(p, RetryUser, a)
  \/ \E p \in Procs : TxConnect(p)
  \/ \E p \in Procs : TxBegin(p)
  \/ \E p \in Procs : TxSelectForUpdate(p)
  \/ \E p \in Procs : TxUpdate(p)
  \/ \E p \in Procs : TxCommit(p)
  \/ \E p \in Procs : TxRollback(p)

\* Ticket creation through both routes.
NextCreate ==
  \/ \E p \in Procs, u \in Users, h \in BOOLEAN : CreateTickets(p, u, h)
  \/ \E p \in Procs : PublicCreate(p)
  \/ \E p \in Procs : CreateCount(p)
  \/ \E p \in Procs : CreateFindAdmin(p)
  \/ \E p \in Procs, ns \in generateLotteryNumbers(desiredCount) : CreateAlter(p, ns)
  \/ \E p \in Procs : CreateInsert(p)
  \/ \E p \in Procs : CreateVerify(p)
  \/ \E p \in Procs : CreateFault(p)

\* The guarded routes: ticket creation and the guarded reset.
NextGuard ==
  \/ \E p \in Procs, u \in Users, h \in BOOLEAN : CreateTickets(p, u, h)
  \/ \E p \in Procs, u \in Users, h \in BOOLEAN : GuardedReset(p, u, h)
  \/ \E p \in Procs : CreateCount(p)
  \/ \E p \in Procs : CreateFindAdmin(p)
  \/ \E p \in Procs, ns \in generateLotteryNumbers(desiredCount) : CreateAlter(p, ns)
  \/ \E p \in Procs : CreateInsert(p)
  \/ \E p \in Procs : CreateVerify(p)
  \/ \E p \in Procs : CreateFault(p)
  \/ \E p \in Procs : ResetFindAdmin(p)
  \/ \E p \in Procs : ResetDelete(p)
  \/ \E p \in Procs : ResetFinish(p)
  \/ \E p \in Procs : ResetFault(p)

\* The limiter's map over a day: the wallet mutations, the clock and cleanup.
NextSweep ==
  \/ \E p \in Procs : deductFromWallet(p, RetryUser, RateAmount)
  \/ \E p \in Procs : addToWallet(p, RetryUser, RateAmount)
  \/ \E p \in Procs : TxConnect(p)
  \/ \E p \in Procs : TxBegin(p)
  \/ \E p \in Procs : TxSelectForUpdate(p)
  \/ \E p \in Procs : TxUpdate(p)
  \/ \E p \in Procs : TxCommit(p)
  \/ \E ms \in SweepSteps : TickBy(ms, MaxRateTicks)
  \/ RateCleanup

\* Everything that writes the balance of one account: purchases, prize claims and
\* wallet mutations.
NextLedger ==
  \/ \E p \in Procs, ids \in PurchaseSets : RestPurchase(p, RetryUser, ids)
  \/ \E p \in Procs : RestSelectTickets(p)
  \/ \E p \in Procs : RestSelectUser(p)
  \/ \E p \in Procs : RestDebit(p)
  \/ \E p \in Procs : RestInsert(p)
  \/ \E p \in Procs : RestMark(p)
  \/ \E p \in Procs, n \in ClaimNumbers : ClaimPrize(p, RetryUser, n)
  \/ \E p \in Procs : ClaimSelect(p)
  \/ \E p \in Procs : ClaimMark(p)
  \/ \E p \in Procs : ClaimReadWallet(p)
  \/ \E p \in Procs : ClaimCredit(p)
  \/ \E p \in Procs : deductFromWallet(p, RetryUser, RateAmount)
  \/ \E p \in Procs : addToWallet(p, RetryUser, RateAmount)
  \/ \E p \in Procs : TxConnect(p)
  \/ \E p \in Procs : TxBegin(p)
  \/ \E p \in Procs : TxSelectForUpdate(p)
  \/ \E p \in Procs : TxUpdate(p)
  \/ \E p \in Procs : TxCommit(p)
  \/ \E p \in Procs : TxRollback(p)

NextRest ==
  \/ \E p \in Procs, u \in UserIds, ids \in PurchaseSets : RestPurchase(p, u, ids)
  \/ \E p \in Procs : RestSelectTickets(p)
  \/ \E p \in Procs : RestSelectUser(p)
  \/ \E p \in Procs : RestDebit(p)
  \/ \E p \in Procs : RestInsert(p)
  \/ \E p \in Procs : RestMark(p)
  \/ \E p \in Procs : RestFault(p)

NextSocket ==
  \/ \E u \in Users : Login(u)
  \/ \E p \in Procs, u \in Users, ids \in PurchaseSets : SocketPurchase(p, u, ids)
  \/ \E p \in Procs : SocketSelectTickets(p)
  \/ \E p \in Procs : SocketInsert(p)
  \/ \E p \in Procs : markAsSoldOwner(p)
  \/ \E p \in Procs : markAsSoldRef(p)
  \/ \E p \in Procs : SocketDebit(p)
  \/ \E p \in Procs : SocketFault(p)

NextClaim ==
  \/ \E p \in Procs, u \in Users, n \in ClaimNumbers : ClaimPrize(p, u, n)
  \/ \E p \in Procs : ClaimSelect(p)
  \/ \E p \in Procs : ClaimMark(p)
  \/ \E p \in Procs : ClaimReadWallet(p)
  \/ \E p \in Procs : ClaimCredit(p)
  \/ \E p \in Procs, c \in FaultCodes : ClaimFault(p, c)

NextMock ==
  \/ \E p \in Procs, u \in Users, n \in ClaimNumbers : MockClaim(p, u, n)
  \/ \E p \in Procs : MockSelect(p)
  \/ \E p \in Procs : MockReadWallet(p)
  \/ \E p \in Procs : MockCredit(p)
  \/ \E p \in Procs : MockMark(p)
  \/ \E p \in Procs : MockFault(p)

NextDraw ==
  \/ \E p \in Procs, u \in Users, t \in PoolTypes, r \in RewardInputs : RestDraw(p, u, t, r)
  \/ \E p \in Procs : DrawSelect(p)
  \/ \E p \in Procs : DrawCommit(p)
  \/ \E p \in Procs, c \in FaultCodes : DrawFault(p, c)
  \/ \E p \in Procs : DrawRollback(p)
  \/ \E p \in Procs : DrawRollbackFault(p)

NextSocketDraw ==
  \/ \E u \in Users : Login(u)
  \/ \E p \in Procs, u \in Users, t \in PoolTypes, r \in RewardInputs :
       SocketDraw(p, u, t, r)
  \/ \E p \in Procs : SDrawPool(p)
  \/ \E p \in Procs : SDrawClear(p)
  \/ \E p \in Procs : SDrawInsert(p)
  \/ \E p \in Procs : SDrawResult(p)
  \/ \E p \in Procs : SDrawFault(p)

NextReset ==
  \/ \E u \in Users : Login(u)
  \/ \E p \in Procs, u \in Users : RestReset(p, u)
  \/ \E p \in Procs : ResetFindAdmin(p)
  \/ \E p \in Procs, u \in Users : SocketReset(p, u)
  \/ \E p \in Procs : ResetDelete(p)
  \/ \E p \in Procs : ResetFinish(p)
  \/ \E p \in Procs : ResetFault(p)

\* The wallet mutations through the retry executor, with the connection lost under
\* statements and under commit.
NextAckLoss ==
  \/ \E p \in Procs, a \in RetryAmounts : deductFromWallet(p, RetryUser, a)
  \/ \E p \in Procs, a \in RetryAmounts : addToWallet(p, RetryUser, a)
  \/ \E p \in Procs : TxConnect(p)
  \/ \E p \in Procs : TxConnectFault(p, LostCode, MaxTxFaults)
  \/ \E p \in Procs : TxBegin(p)
  \/ \E p \in Procs : TxSelectForUpdate(p)
  \/ \E p \in Procs : TxUpdate(p)
  \/ \E p \in Procs : TxCommit(p)
  \/ \E p \in Procs : TxFault(p, LostCode, MaxTxFaults)
  \/ \E p \in Procs, applied \in BOOLEAN : TxCommitLost(p, applied, MaxTxFaults)
  \/ \E p \in Procs : TxRollback(p)
  \/ \E p \in Procs : TxRollbackFault(p)

\* initializeDatabase, with up to MaxConnFaults faults.
NextConnect ==
  \/ \E p \in Procs : initializeDatabase(p)
  \/ \E p \in Procs : GetConnection(p)
  \/ \E p \in Procs, c \in ConnCodes : GetConnectionFault(p, c, MaxConnFaults)
  \/ \E p \in Procs : GetConnectionInvalid(p, MaxConnFaults)
  \/ \E p \in Procs : InitDbWork(p)
  \/ \E p \in Procs : InitDbCommit(p)
  \/ \E p \in Procs, c \in ConnCodes : InitDbFault(p, c, MaxConnFaults)

NextFrame == Tick

Next ==
  \/ NextWallet \/ NextRetry \/ NextAckLoss \/ NextConnect \/ NextRate \/ NextLedger \/ NextSweep \/ NextAmount \/ NextCreate \/ NextGuard \/ NextRest \/ NextSocket \/ NextClaim \/ NextMock
  \/ NextDraw \/ NextSocketDraw \/ NextReset \/ NextFrame

\* Every handler, from either store.
Spec == Init /\ [][Next]_vars

\* The wallet mutations alone.
SpecWallet == InitWallet /\ [][NextWallet \/ NextFrame]_vars

\* The rate limiter of the wallet mutations.
SpecRate == InitRate /\ [][NextRate]_vars

\* The wallet mutations with amounts at the bounds of the validator.
SpecAmount == InitAmount /\ [][NextAmount]_vars

\* Ticket creation, from the store a reset leaves.
SpecCreate == InitCreate /\ [][NextCreate]_vars

\* The routes behind validateConcurrentOperations.
SpecGuard == InitGuard /\ [][NextGuard]_vars

\* The limiter's map while time passes.
SpecSweep == InitSweep /\ [][NextSweep]_vars

\* The steps the event loop runs for handler p of a wallet mutation.
SweepStep(p) ==
  \/ TxConnect(p) \/ TxBegin(p) \/ TxSelectForUpdate(p) \/ TxUpdate(p) \/ TxCommit(p)

\* The same with every resolved await eventually run.  cleanup has no caller, so
\* nothing obliges it to run.
SpecSweepFair == SpecSweep /\ \A p \in Procs : WF_vars(SweepStep(p))

\* The writers of one account's balance, after a draw.
SpecLedger == InitLedger /\ [][NextLedger]_vars

\* The retry executor with the connection lost at any step of an attempt.
SpecAckLoss == InitAckLoss /\ [][NextAckLoss]_vars

\* The start-up transaction over the retrying getConnection.
SpecConnect == InitConnect /\ [][NextConnect]_vars

\* The retry executor under repeated faults.
SpecRetry == InitRetry /\ [][NextRetry]_vars

\* The steps the event loop runs for handler p once their awaits resolve.
RetryStep(p) ==
  \/ TxConnect(p) \/ TxBegin(p) \/ TxSelectForUpdate(p) \/ TxUpdate(p) \/ TxCommit(p)
  \/ TxRollback(p) \/ QueryConnect(p) \/ QueryRun(p)

\* The same with every resolved await of every handler eventually run.
SpecRetryFair == SpecRetry /\ \A p \in Procs : WF_vars(RetryStep(p))

\* The purchase handlers alone.
SpecPurchase ==
  InitPurchase /\ [][NextRest \/ NextSocket \/ NextFrame]_vars

\* POST /purchase together with the claim route of controllers/prizes.js.
SpecMarket ==
  InitPurchase /\ [][NextRest \/ NextMock \/ NextFrame]_vars

\* The draws of the REST route and of the socket handler.
SpecDraw ==
  InitDraw /\ [][NextDraw \/ NextSocketDraw]_vars

\* The resets of the REST route and of the socket handler.
SpecReset ==
  InitReset /\ [][NextReset \/ NextFrame]_vars

\* The prize claim alone, after a draw.
SpecClaim ==
  InitClaim /\ [][NextClaim \/ NextFrame]_vars

\* ============================================================ claims
IsPurchase(p) == req[p].op \in {"purchase", "socket_purchase"}

\* C1: under every interleaving of deductFromWallet and addToWallet calls, each
\* account's stored balance is its initial balance plus the amounts of the adds
\* that succeeded minus the amounts of the deducts that succeeded.
C1_NoLostUpdate ==
  \A u \in Users : wallet[u] = wallet0[u] + sumAdds[u] - sumDeducts[u]

\* A deduct and an add on one account that both started from the same stored
\* balance (so they were in flight together) and both succeeded.
C1_Witness ==
  \E p, q \in Procs :
    /\ p # q /\ pc[p] = "done" /\ pc[q] = "done"
    /\ req[p].op = "deduct" /\ req[q].op = "add"
    /\ req[p].user = req[q].user
    /\ res[p].status = "ok" /\ res[q].status = "ok"
    /\ obs[p].bal0 = obs[q].bal0

\* C2: every account's stored balance is >= 0 in every reachable state.
C2_BalanceNonNegative == \A u \in Users : wallet[u] >= 0

C4_SingleClaim ==
  \A p, q \in Procs :
    (p # q /\ pc[p] = "done" /\ pc[q] = "done"
       /\ req[p].op = "claim" /\ req[q].op = "claim"
       /\ req[p].ticketNumber = req[q].ticketNumber)
    => ~(res[p].status = "ok" /\ res[q].status = "ok")

\* The user whose purchase holds the ticket of that number.
IsBuyer(u, n) ==
  \E t \in Tickets : /\ number[t] = n
                     /\ ticket[t].purchase_id \in DOMAIN purchases
                     /\ purchases[ticket[t].purchase_id].user_id = u

\* C5: a claim by the ticket's buyer that finds the ticket already claimed is
\* answered ALREADY_CLAIMED and writes nothing.
C5_AlreadyClaimed ==
  \A p \in Procs :
    (pc[p] = "done" /\ req[p].op = "claim" /\ obs[p].seen = "claimed"
       /\ IsBuyer(req[p].user, req[p].ticketNumber) /\ res[p].error # "failed")
    => (res[p].status = "error" /\ res[p].code = "ALREADY_CLAIMED" /\ obs[p].eff = {})

\* C6: a purchase whose availability query misses one of the requested tickets is
\* rejected and has written no ticket, no Purchase row and no balance.
C6_RejectedWhole ==
  \A p \in Procs :
    (IsPurchase(p) /\ obs[p].seen = "unavailable")
    => (pc[p] = "done" /\ res[p].status = "rejected"
          /\ obs[p].eff = {} /\ obs[p].delta = 0)

\* A request for two tickets of which one is on sale and one is not, rejected.
C6_Witness ==
  \E p \in Procs :
    /\ pc[p] = "done" /\ IsPurchase(p) /\ obs[p].seen = "unavailable"
    /\ loc[p].tickets # {} /\ loc[p].tickets # req[p].ticketIds
    /\ res[p].error = "tickets_unavailable"

\* C7: a purchase that does not succeed has written nothing.
C7_AllOrNothing ==
  \A p \in Procs :
    (pc[p] = "done" /\ IsPurchase(p) /\ res[p].status # "ok") => obs[p].eff = {}

\* C8: a purchase that succeeded wrote one Purchase row for the buyer with the sum
\* of the prices, lowered the balance by exactly that sum, and left every ticket
\* sold, owned by the buyer and referring to that row.
C8_ExactPurchase ==
  \A p \in Procs :
    (pc[p] = "done" /\ IsPurchase(p) /\ res[p].status = "ok")
    => /\ loc[p].purchaseId \in DOMAIN purchases
       /\ purchases[loc[p].purchaseId] =
            [user_id |-> req[p].user, total_price |-> totalCost(req[p].ticketIds)]
       /\ obs[p].delta = 0 - totalCost(req[p].ticketIds)
       /\ \A t \in req[p].ticketIds :
            /\ ticket[t].status = "sold"
            /\ ticket[t].created_by = req[p].user
            /\ ticket[t].purchase_id = loc[p].purchaseId

\* C9: of two purchases that include the same ticket at most one succeeds.
C9_SingleBuyer ==
  \A p, q \in Procs :
    (p # q /\ pc[p] = "done" /\ pc[q] = "done" /\ IsPurchase(p) /\ IsPurchase(q)
       /\ res[p].status = "ok" /\ res[q].status = "ok")
    => req[p].ticketIds \cap req[q].ticketIds = {}

\* C10: a purchase whose total exceeds the balance stored when the handler tests
\* the balance is rejected for insufficient balance and writes nothing.
C10_InsufficientRejected ==
  \A p \in Procs :
    (pc[p] = "done" /\ IsPurchase(p) /\ obs[p].tested
       /\ loc[p].totalCost > obs[p].stored /\ res[p].error # "failed")
    => (res[p].status = "rejected" /\ res[p].error = "insufficient_balance"
          /\ obs[p].eff = {})

\* The position of a status on the path available -> sold -> claimed.
statusRank(st) == CASE st = "available" -> 0 [] st = "sold" -> 1 [] st = "claimed" -> 2

IsClaim(p) == req[p].op \in {"claim", "mock_claim"}

\* C11: no step of a purchase or of a claim moves a ticket's status backwards on
\* the path available -> sold -> claimed; in particular a claimed ticket stays claimed.
C11_ForwardOnly ==
  [][\A t \in Tickets :
       statusRank(ticket'[t].status) >= statusRank(ticket[t].status)]_vars

\* C12: a claim that credits a wallet, changes a ticket or answers success found,
\* at its check, a sold ticket of the claiming account with a Prize bound to it.
C12_EligibleOnly ==
  \A p \in Procs :
    (pc[p] = "done" /\ IsClaim(p) /\ (res[p].status = "ok" \/ obs[p].eff # {}))
    => (obs[p].seen = "winner" /\ loc[p].ticketId # Null)

\* C13: once a claim has answered, whether with its result or with a failure at
\* any step, it has marked the ticket claimed if and only if it has credited the
\* wallet.
C13_ClaimAtomic ==
  \A p \in Procs :
    (pc[p] = "done" /\ req[p].op = "claim")
    => (("Ticket" \in obs[p].eff) <=> ("User" \in obs[p].eff))

IsDraw(p) == req[p].op \in {"draw", "socket_draw"}

PoolCodes == {"INSUFFICIENT_TICKETS", "INSUFFICIENT_SOLD_TICKETS", "NO_SOLD_TICKETS"}

DrawSucceeded(p) == pc[p] = "done" /\ IsDraw(p) /\ res[p].status = "ok"

\* The tickets the draw of p selected as winners of rank r.
rankWinners(p, r) ==
  IF r <= Len(loc[p].winners) THEN {loc[p].winners[r]}
  ELSE IF req[p].op = "draw" /\ r = 4 THEN loc[p].tail3Winners
  ELSE IF req[p].op = "draw" /\ r = 5 THEN loc[p].tail2Winners
  ELSE {}

PairwiseDistinct(s) == \A i, j \in DOMAIN s : i # j => s[i] # s[j]

\* C15 (as stated): a successful draw has exactly one winner for each of the ranks
\* 1..5, the five are pairwise distinct tickets of the pool.
C15_AsStated ==
  \A p \in Procs :
    DrawSucceeded(p) =>
      /\ \A r \in 1..5 : Cardinality(rankWinners(p, r)) = 1
                         /\ rankWinners(p, r) \subseteq obs[p].pool
      /\ \A r1, r2 \in 1..5 : r1 # r2 => rankWinners(p, r1) \cap rankWinners(p, r2) = {}

\* C15 (amended): a successful draw of the socket handler gives the ranks 1..5 to
\* five pairwise distinct tickets of its pool; a successful draw of POST /draws
\* gives the ranks 1..3 to three pairwise distinct tickets of its pool, and the
\* ranks 4 and 5 to the tickets of the pool that match the drawn suffixes.
C15_DistinctWinners ==
  \A p \in Procs :
    DrawSucceeded(p) =>
      /\ Len(loc[p].winners) = IF req[p].op = "draw" THEN 3 ELSE 5
      /\ PairwiseDistinct(loc[p].winners)
      /\ \A r \in 1..5 : rankWinners(p, r) \subseteq obs[p].pool

C15_Witness ==
  \E p \in Procs, q \in Procs :
    /\ DrawSucceeded(p) /\ req[p].op = "socket_draw" /\ Len(loc[p].winners) = 5
    /\ DrawSucceeded(q) /\ req[q].op = "draw" /\ Cardinality(loc[q].tail3Winners) = 2

\* C16: in every reachable state, draws in flight included, the Prize table holds
\* at most one row of each rank.
C16_OneRowPerRank ==
  \A i, j \in DOMAIN prize : i # j => prize[i].rank # prize[j].rank

\* The tickets of the pool of p whose number ends with the k-th drawn suffix
\* (k = 1: three digits, k = 2: two digits).
suffixMatches(p, k) ==
  {t \in obs[p].pool : endsWith(number[t], 4 - k, loc[p].tails[k])}

\* C17: after a successful draw of the tail-digit variant, the tickets recorded as
\* winners of rank 4 are exactly the tickets of the pool whose number ends with the
\* drawn three digits, and those of rank 5 exactly the ones ending with the drawn
\* two digits.
C17_TailWinnersExact ==
  \A p \in Procs :
    (DrawSucceeded(p) /\ req[p].op = "draw") =>
      /\ obs[p].bound[4] = suffixMatches(p, 1)
      /\ obs[p].bound[5] = suffixMatches(p, 2)

IsReset(p) == req[p].op \in {"reset", "socket_reset"}

ResetSucceeded(p) == pc[p] = "done" /\ IsReset(p) /\ res[p].status = "ok"

C19_FreshInventory ==
  \A p \in Procs :
    ResetSucceeded(p) =>
      /\ inventory = Tickets
      /\ \A t \in Tickets : ticket[t] = FreshTicket
      /\ \A t1, t2 \in Tickets : t1 # t2 => number[t1] # number[t2]

\* The tables a reset has emptied so far, of the four it empties.
wiped ==
  {tb \in {"Purchase", "Prize", "Ticket", "User"} :
     CASE tb = "Purchase" -> purchases = <<>>
       [] tb = "Prize" -> prize = <<>>
       [] tb = "Ticket" -> inventory = {}
       [] tb = "User" -> accounts = Privileged(accounts)}

HalfReset == wiped # {} /\ wiped # {"Purchase", "Prize", "Ticket", "User"}

Quiescent == \A p \in Procs : pc[p] \in {"idle", "done"}

\* C20: the reset is one atomic operation: once no request is in flight, the store
\* is either as it was or wholly reset, whether the reset succeeded or failed.
C20_NoHalfResetLeft == Quiescent => ~HalfReset

\* C21: a reset that begins when User holds no owner and no admin row ends with an
\* error and has deleted nothing.
C21_NoAdminNoDelete ==
  \A p \in Procs :
    (IsReset(p) /\ res[p].status # "rejected" /\ Privileged(obs[p].users0) = {}) =>
      /\ obs[p].eff = {}
      /\ pc[p] = "done" => res[p].status = "error"

\* The requests that executeWithRetry serves.
IsRetried(p) == req[p].op \in {"deduct", "add", "find"}

\* C22: executeWithRetry invokes the wrapped operation at most maxRetries times,
\* and every call ends, with the operation's result or with an error.
C22_BoundedAttempts ==
  /\ [](\A p \in Procs : IsRetried(p) => obs[p].tx.calls <= maxRetries)
  /\ \A p \in Procs :
       (IsRetried(p) /\ pc[p] # "done") ~>
         (pc[p] = "done" /\ res[p].status \in {"ok", "error"})

C22_Witness ==
  \E p \in Procs :
    /\ IsRetried(p) /\ pc[p] = "done" /\ res[p].status = "error"
    /\ obs[p].tx.calls = maxRetries
    /\ \E q \in Procs : IsRetried(q) /\ pc[q] = "done" /\ res[q].status = "ok"
                        /\ obs[q].tx.calls = 2

\* The faults the specification calls transient: connection reset, refused or timed
\* out, lock-wait timeout, deadlock, too many connections.
TransientCodes ==
  {"ECONNRESET", "ECONNREFUSED", "ETIMEDOUT", "ENOTFOUND", "ER_LOCK_WAIT_TIMEOUT",
   "ER_LOCK_DEADLOCK", "ER_CON_COUNT_ERROR", "ER_TOO_MANY_USER_CONNECTIONS"}

Failed(p) == pc[p] = "done" /\ res[p].status = "error"

\* The errors of the call of p that executeWithRetry answered with a new attempt.
retriedErrors(p) ==
  LET errs == obs[p].tx.errs
  IN IF Failed(p) /\ errs # <<>> THEN SubSeq(errs, 1, Len(errs) - 1) ELSE errs

AllTransient(errs) == \A i \in 1..Len(errs) : errs[i] \in TransientCodes

\* C24: a call whose attempts all fail with a transient fault raises no error before
\* its last attempt, and after it one enhanced error that names the operation,
\* counts the attempts made and carries the last fault as its cause.
C24_ExhaustedError ==
  \A p \in Procs :
    (IsRetried(p) /\ AllTransient(obs[p].tx.errs)) =>
      LET n == Len(obs[p].tx.errs)
      IN /\ n < maxRetries => ~Failed(p)
         /\ n = maxRetries =>
              /\ Failed(p)
              /\ res[p].raised.name = "Error"
              /\ res[p].raised.operation = operationName(req[p].op)
              /\ res[p].raised.attempts = obs[p].tx.calls
              /\ res[p].raised.attempts = maxRetries
              /\ res[p].raised.originalError[2] = obs[p].tx.errs[n]
              /\ res[p].code = obs[p].tx.errs[n]

C24_Witness ==
  \E p \in Procs :
    /\ req[p].op = "deduct" /\ Failed(p)
    /\ Len(obs[p].tx.errs) = maxRetries /\ AllTransient(obs[p].tx.errs)
    /\ obs[p].tx.waits = <<calculateDelay(0), calculateDelay(1)>>

HoldingPcs == {"w_begin", "w_select", "w_update", "w_commit", "w_rollback", "q_run"}

\* C26: an attempt of executeTransaction or executeQuery holds one connection of its
\* own from getConnection() until its exit, where the connection is ended once: the
\* connections ended never exceed those acquired, exactly one is open while an
\* attempt runs, none is open once the call has ended, whichever way it ended.
C26_ConnectionReleased ==
  \A p \in Procs :
    IsRetried(p) =>
      LET open == obs[p].tx.opened - obs[p].tx.closed
      IN /\ open \in {0, 1}
         /\ open = 1 <=> pc[p] \in HoldingPcs
         /\ pc[p] = "done" => open = 0
         /\ obs[p].tx.opened <= obs[p].tx.calls

C26_Witness ==
  \E p \in Procs, q \in Procs :
    /\ req[p].op \in {"deduct", "add"} /\ Failed(p) /\ obs[p].tx.failedRollbacks = {1}
    /\ obs[p].tx.works = 1 /\ obs[p].tx.opened = 1 /\ obs[p].tx.closed = 1
    /\ req[q].op = "find" /\ pc[q] = "done" /\ res[q].status = "ok"
    /\ obs[q].tx.opened = 2 /\ obs[q].tx.closed = 2

\* C27: when the transaction's work failed and the rollback that followed failed
\* too, the error the caller receives is the one of the work.
C27_OriginalErrorKept ==
  \A p \in Procs :
    LET errs == obs[p].tx.errs
    IN (Failed(p) /\ errs # <<>> /\ Len(errs) \in obs[p].tx.failedRollbacks) =>
         res[p].code = errorCode(errs[Len(errs)])

\* C28: a business-rule error thrown by the operation that executeWithRetry wraps is
\* not retried, and the error the caller receives is that error: the same type, the
\* same message and the same code.
C28_BusinessErrorUnchanged ==
  \A p \in Procs :
    LET errs == obs[p].tx.errs
        n == Len(errs)
    IN (IsRetried(p) /\ n > 0 /\ errs[n] \in BusinessCodes) =>
         /\ Failed(p)
         /\ res[p].raised.code = errs[n]
         /\ res[p].raised.name = errorOf(errs[n]).name
         /\ res[p].raised.message = errorOf(errs[n]).message

IsWalletCall(p) == req[p].op \in {"deduct", "add"}

\* C29: for every key the limiter has let through at most RateMaxRequests calls
\* inside the window that ends now (which bounds every rolling window), and a
\* wallet call is rejected with RATE_LIMIT_EXCEEDED exactly when that many calls of
\* its key were inside the window at its arrival.
C29_RateBound ==
  /\ \A key \in RateKeys : inWindow(key) <= RateMaxRequests
  /\ \A p \in Procs :
       (IsWalletCall(p) /\ validateWalletAmount(req[p].amount) = "OK") =>
         (obs[p].rate0 >= RateMaxRequests <=>
            (pc[p] = "done" /\ res[p].code = "RATE_LIMIT_EXCEEDED"))

C29_Witness ==
  \E p \in Procs, q \in Procs :
    /\ now = RateWindowMs
    /\ IsWalletCall(p) /\ res[p].code = "RATE_LIMIT_EXCEEDED"
    /\ obs[p].rate0 = RateMaxRequests
    /\ IsWalletCall(q) /\ req[q].op = req[p].op /\ pc[q] = "done"
    /\ res[q].status = "ok" /\ obs[q].rate0 = 0

RateRejected(p) ==
  IsWalletCall(p) /\ pc[p] = "done" /\ res[p].code = "RATE_LIMIT_EXCEEDED"

\* C30: the rate-limit check of a wallet mutation precedes its transaction: a call
\* is on its way into or inside the transaction only if the limiter let it pass, a
\* call rejected with RATE_LIMIT_EXCEEDED has acquired no connection, opened no
\* transaction and written nothing, and the rejecting step leaves every balance as
\* it was.
C30_RateCheckBeforeTx ==
  /\ [](\A p \in Procs :
          /\ (IsWalletCall(p) /\ pc[p] \in HoldingPcs \cup {"w_connect"}) =>
               obs[p].rate0 < RateMaxRequests
          /\ RateRejected(p) =>
               /\ obs[p].tx.calls = 0 /\ obs[p].tx.opened = 0
               /\ obs[p].tx.works = 0 /\ obs[p].tx.commits = 0
               /\ obs[p].tx.closed = 0 /\ obs[p].delta = 0)
  /\ [][\A p \in Procs :
          (RateRejected(p)' /\ pc[p] # "done") =>
            (wallet' = wallet /\ userLock' = userLock)]_vars

C30_Witness ==
  \E p \in Procs, q \in Procs :
    /\ RateRejected(p) /\ obs[p].rate0 = RateMaxRequests
    /\ wallet[req[p].user] = obs[p].bal0
    /\ IsWalletCall(q) /\ pc[q] = "done" /\ res[q].status = "ok"
    /\ obs[q].tx.commits = 1

InRange(amount) == amount \in Int /\ 0 <= amount /\ amount <= WalletLimit

\* C31: a wallet mutation whose amount lies outside 0..WalletLimit is rejected
\* before any connection is acquired, and one whose amount lies inside is rejected
\* for a reason of value only when the balance rules it out: a deduct whose
\* balance is below the amount, an add that would pass the ceiling.
C31_AmountRange ==
  \A p \in Procs :
    (IsWalletCall(p) /\ pc[p] = "done") =>
      IF ~InRange(req[p].amount)
        THEN /\ res[p].status = "error"
             /\ res[p].code \in {"INVALID_AMOUNT_FORMAT", "NEGATIVE_AMOUNT",
                                 "AMOUNT_EXCEEDS_LIMIT"}
             /\ obs[p].tx.calls = 0 /\ obs[p].delta = 0
        ELSE \/ res[p].status = "ok"
             \/ res[p].code \notin {"INVALID_AMOUNT_FORMAT", "NEGATIVE_AMOUNT",
                                    "AMOUNT_EXCEEDS_LIMIT", "INVALID_REQUIRED_AMOUNT",
                                    "INSUFFICIENT_FUNDS", "INVALID_WALLET_AMOUNT"}
             \/ /\ req[p].op = "deduct" /\ res[p].code = "INSUFFICIENT_FUNDS"
                /\ loc[p].cur < req[p].amount
             \/ /\ req[p].op = "add" /\ res[p].code = "AMOUNT_EXCEEDS_LIMIT"
                /\ loc[p].cur + req[p].amount > WalletLimit

\* C32: every account's stored balance is at most the ceiling WalletLimit,
\* whichever operation wrote it last.
C32_BalanceCeiling == \A u \in accounts : wallet[u] <= WalletLimit

\* The rows of Ticket: those of the stocked inventory and those creation inserted.
ticketRows ==
  {[number |-> padStart(toString(number[t]), 6, 0), status |-> ticket[t].status,
    created_by |-> ticket[t].created_by] : t \in inventory}
    \cup {[number |-> created[i].number, status |-> created[i].status,
           created_by |-> created[i].created_by] : i \in DOMAIN created}

\* C33: a ticket has a non-null owner (created_by) exactly when its status is not
\* available.
C33_OwnerIffNotAvailable ==
  \A r \in ticketRows : (r.created_by # Null) <=> (r.status # "available")

IsCreate(p) == req[p].op \in {"create_tickets", "create"}

\* C34: the numbers of the rows of Ticket are pairwise distinct strings of six
\* decimal digits, also while several creation requests insert their batches.
C34_DistinctNumbers ==
  /\ Cardinality(ticketNumbers) = Cardinality(inventory) + Len(created)
  /\ \A n \in ticketNumbers : Len(n) = 6 /\ \A k \in 1..6 : n[k] \in 0..9

C34_Witness ==
  \E p \in Procs, q \in Procs :
    /\ p # q /\ IsCreate(p) /\ IsCreate(q)
    /\ "Ticket" \in obs[p].eff /\ "Ticket" \in obs[q].eff
    /\ pc[p] = "done" /\ res[p].code = "ER_DUP_ENTRY"
    /\ pc[q] = "done" /\ res[q].status = "ok"
    /\ Len(created) > desiredCount
    /\ <<0, 0, 0, 0, 0, 7>> \in ticketNumbers

\* The guarded requests of operation o that are in progress.
InProgress(o) == {p \in Procs : pc[p] \notin {"idle", "done"} /\ guardOf(req[p].op) = o}

\* C40: for each guarded operation the counter equals the number of its requests
\* in progress and never passes the maximum of 1; it is therefore zero once they
\* have all finished, whether they succeeded or failed.
C40_CounterMatches ==
  \A o \in GuardedOps :
    /\ concurrentOps[o] = Cardinality(InProgress(o))
    /\ concurrentOps[o] <= 1

C40_Witness ==
  \E p \in Procs, q \in Procs :
    /\ p # q /\ guardOf(req[p].op) \in GuardedOps /\ guardOf(req[q].op) = guardOf(req[p].op)
    /\ pc[p] = "done" /\ res[p].code = "TOO_MANY_CONCURRENT_OPERATIONS"
    /\ pc[q] = "done" /\ res[q].status = "error" /\ res[q].error = "failed"
    /\ \A o \in GuardedOps : concurrentOps[o] = 0

\* C35: a draw that began with the Prize rows of a previous draw in place and
\* ended in failure has left those rows and the ticket-prize bindings as it found
\* them, whenever no other request in flight has written since.
C35_FailedDrawKeepsPrizes ==
  \A p \in Procs :
    (/\ IsDraw(p) /\ pc[p] = "done" /\ res[p].status = "error"
     /\ obs[p].prize0 # <<>>
     /\ \A q \in Procs \ {p} : obs[q].eff = {})
      => /\ prize = obs[p].prize0
         /\ [t \in Tickets |-> ticket[t].prize_id] = obs[p].links0

\* The keys the limiter's map holds, and those whose timestamps have all left the
\* window.
storedKeys == {key \in RateKeys : requestCounts[key] # <<>>}
staleKeys == {key \in storedKeys : inWindow(key) = 0}

\* C36: every key whose recorded timestamps have all expired is eventually removed
\* from the limiter's map.
C36_StaleKeysRemoved ==
  \A key \in RateKeys : (key \in staleKeys) ~> (key \notin storedKeys)

\* What a finished request has added to the balance of account u according to its
\* answer: the amount of a successful add, the prize of a successful claim, minus
\* the amount of a successful deduct, minus the total of a successful purchase.
credited ==
  [u \in Users |-> [p \in Procs |->
     IF ~(pc[p] = "done" /\ res[p].status = "ok" /\ req[p].user = u) THEN 0
     ELSE IF req[p].op = "add" THEN req[p].amount
     ELSE IF req[p].op = "deduct" THEN 0 - req[p].amount
     ELSE IF IsPurchase(p) THEN 0 - totalCost(req[p].ticketIds)
     ELSE IF req[p].op = "claim" THEN loc[p].prizeAmount
     ELSE 0]]

\* C37: once every request has finished, each balance equals the initial balance
\* plus the successful adds and credited prizes minus the successful deducts and
\* purchase totals (stated for behaviours in which every handler served at most
\* one request, so that each answer is still on record).
C37_LedgerBalanced ==
  (Quiescent /\ nreq = Cardinality({p \in Procs : req[p].op # "none"}))
    => \A u \in Users : wallet[u] = wallet0[u] + SumOver(credited[u], Procs)

\* What one application of the wallet mutation of p does to the balance.
effectOf(p) == IF req[p].op = "add" THEN req[p].amount ELSE 0 - req[p].amount

\* C38: a wallet mutation that was retried after a transient fault has changed the
\* balance by its amount at most once when it returns, and by exactly its amount
\* when it returns successfully, whichever step the fault interrupted.
C38_RetryAppliesOnce ==
  \A p \in Procs :
    (IsWalletCall(p) /\ pc[p] = "done" /\ obs[p].tx.errs # <<>>)
      => /\ obs[p].delta \in {0, effectOf(p)}
         /\ res[p].status = "ok" => obs[p].delta = effectOf(p)

\* C39: one executeTransaction call makes at most maxRetries attempts to create a
\* database connection.
C39_BoundedConnects ==
  \A p \in Procs :
    req[p].op = "initializeDatabase" => obs[p].tx.creates <= maxRetries

====
